---- MODULE Spec2Model ----
(***************************************************************************)
(* A model of the resilient call layer and the SSE delivery channel of     *)
(* the LLM Council backend:                                                *)
(*   - http-client.ts  (optimizedFetch, request deduplication),            *)
(*   - retry.ts        (CircuitBreaker, withRetry),                        *)
(*   - stream-optimizer.ts (OptimizedSSEStream) as driven by the           *)
(*     streaming route of main.ts,                                         *)
(*   - council.ts (the three stages of a round),                           *)
(*   - cache.ts (LRUCache), openrouter.ts (queryModel), storage.ts and     *)
(*     the two message routes of main.ts.                                  *)
(* Each component has its own specification (SpecFetch, SpecRetry,         *)
(* SpecStream, SpecCouncil, SpecRanking, SpecAggregation, SpecCache,       *)
(* SpecLRUCache, SpecRoutes, SpecQuery, SpecStorage); a specification      *)
(* leaves the other components' variables unchanged.                       *)
(***************************************************************************)
EXTENDS Integers, Sequences, FiniteSets, TLC

VARIABLES
    \* http-client.ts
    pendingRequests,   \* Map<string, Promise<Response>>: request key -> physical request
    requests,          \* the physical fetch() calls in flight, by number
    issued,            \* number of physical fetch() calls issued so far
    fcalls,            \* the callers of optimizedFetch
    \* retry.ts
    circuitBreakers,   \* Map<string, CircuitBreaker>
    now,               \* Date.now()
    rcalls,            \* the callers of withRetry
    recorded,          \* per key: summary of the outcomes recorded on its breaker
    \* stream-optimizer.ts and the streaming route of main.ts
    buffer, bufferSize, flushTimer, isClosed,
    transport,         \* the ServerResponse: chunks written, ended, needs drain
    suspended,         \* flush() activations waiting for 'drain'
    handler,           \* the route handler
    accepted,          \* every event write() pushed to the buffer, in order
    \* council.ts
    round,             \* one deliberation round: its stages and their model calls
    ranking,           \* a ranking text and what parseRankingFromText made of it
    aggregation,       \* Stage 2 rankings and what calculateAggregateRankings made of them
    \* cache.ts
    cache,             \* LRUCache.cache: Map<string, CacheEntry>, in insertion order
    clock,             \* Date.now() as the cache reads it
    returned,          \* the cache operation called last and what it returned
    \* main.ts: the two message routes
    request,           \* the message request being handled and its title task
    titleCache,        \* the queries titleCache holds a title for
    \* openrouter.ts
    qcalls,            \* the calls of queryModel
    \* storage.ts
    stored,            \* the conversation file
    storageOps,        \* the storage operations in progress, one per request
    acknowledged       \* what the operations that returned have reported done

fetchVars  == <<pendingRequests, requests, issued, fcalls>>
retryVars  == <<circuitBreakers, now, rcalls, recorded>>
streamVars == <<buffer, bufferSize, flushTimer, isClosed, transport, suspended,
                handler, accepted>>
cacheVars == <<cache, clock, returned>>
routeVars == <<request, titleCache>>
queryVars == <<qcalls>>
storageVars == <<stored, storageOps, acknowledged>>
pureVars == <<ranking, aggregation, cacheVars, routeVars, queryVars, storageVars>>
councilVars == <<round, pureVars>>
vars == <<fetchVars, retryVars, streamVars, councilVars>>

Min(a, b) == IF a <= b THEN a ELSE b
Max(a, b) == IF a >= b THEN a ELSE b

(***************************************************************************)
(*                          http-client.ts                                 *)
(***************************************************************************)

\* Bounds of the fetch model.
NumCallers == 3
MaxFetches == 3

Callers == 1..NumCallers

OPENROUTER_API_URL == "https://openrouter.ai/api/v1/chat/completions"

Models == {"openai/gpt-4o-mini"}
Questions == {"What is 2+2?", "What is 3+3?"}
Stage1Questions == {"What is 2+2?"}

\* JSON.stringify({model, messages}) with messages = [{role: 'user', content}];
\* content is given JSON-escaped.
JsonPayload(model, content) ==
    "{\"model\":\"" \o model \o "\",\"messages\":[{\"role\":\"user\",\"content\":\""
        \o content \o "\"}]}"

\* The Stage 1 message content: the user's question.
Stage1Content(userQuery) == userQuery

\* The Stage 2 ranking prompt for a question; the Stage 1 answers of the round
\* (responsesText) are fixed to one answer here.  JSON-escaped.
RankingPrompt(userQuery) ==
    "You are evaluating different responses to the following question:\\n\\nQuestion: "
        \o userQuery
        \o "\\n\\nHere are the responses from different models (anonymized):\\n\\n"
        \o "Response A:\\nanswer"
        \o "\\n\\nYour task:\\n1. First, evaluate each response individually."
        \o " [...] Now provide your evaluation and ranking:"

Bodies ==
    {JsonPayload(m, Stage1Content(q)) : m \in Models, q \in Stage1Questions}
        \cup {JsonPayload(m, RankingPrompt(q)) : m \in Models, q \in Questions}

BodyHashLen == 100

\* body.slice(0, 100)
Slice(body) == SubSeq(body, 1, Min(BodyHashLen, Len(body)))

\* getRequestKey(url, body, method); "" stands for undefined.
getRequestKey(url, body, method) ==
    LET bodyHash == IF body # "" THEN Slice(body) ELSE ""
        m == IF method # "" THEN method ELSE "GET"
    IN  url \o ":" \o m \o ":" \o bodyHash

\* pendingRequests.get(requestKey): the pending physical request, 0 if none.
PendingGetNever(pending, key) == 0
PendingGet(pending, key) ==
    IF key \in DOMAIN pending THEN pending[key] ELSE 0

\* pendingRequests.delete(key)
MapDelete(map, key) == [k \in DOMAIN map \ {key} |-> map[k]]

\* pendingRequests.set(key, value)
MapSet(map, key, value) ==
    [k \in DOMAIN map \cup {key} |-> IF k = key THEN value ELSE map[k]]

\* .finally(() => pendingRequests.delete(requestKey)), run when the fetch
\* settles; ok tells whether it fulfilled.
FinallyWithoutFailure(pending, key, ok) ==
    IF ok THEN MapDelete(pending, key) ELSE pending
FinallyDelete(pending, key, ok) == MapDelete(pending, key)

\* response.clone(): a new Response object with the same content.
CloneShared(resp, c) == resp
Clone(resp, c) == [resp EXCEPT !.copy = c]

NoResp == [forBody |-> "", req |-> 0, copy |-> 0]
\* A caller is one optimizedFetch call of a queryModel call; aborted is the
\* state of that queryModel call's AbortController.
IdleCall == [pc |-> "idle", body |-> "", req |-> 0, resp |-> NoResp, aborted |-> FALSE]

\* The call of caller c awaits a physical request.
CallAwaits(c) == fcalls[c].pc \in {"awaitOwn", "awaitPending"}

InitFetch ==
    /\ pendingRequests = <<>>
    /\ requests = <<>>
    /\ issued = 0
    /\ fcalls = [c \in Callers |-> IdleCall]

\* optimizedFetch(url, {method: 'POST', body}) up to its first suspension.
OptimizedFetch(c, body) ==
    /\ fcalls[c].pc = "idle"
    /\ LET requestKey == getRequestKey(OPENROUTER_API_URL, body, "POST")
           pendingRequest == PendingGet(pendingRequests, requestKey)
       IN  IF pendingRequest # 0
           THEN /\ fcalls' = [fcalls EXCEPT ![c] =
                       [pc |-> "awaitPending", body |-> body,
                        req |-> pendingRequest, resp |-> NoResp,
                        aborted |-> FALSE]]
                /\ UNCHANGED <<pendingRequests, requests, issued>>
           ELSE /\ issued < MaxFetches
                /\ issued' = issued + 1
                /\ requests' = MapSet(requests, issued + 1,
                       [key |-> requestKey, body |-> body, signal |-> c])
                /\ pendingRequests' =
                       MapSet(pendingRequests, requestKey, issued + 1)
                /\ fcalls' = [fcalls EXCEPT ![c] =
                       [pc |-> "awaitOwn", body |-> body,
                        req |-> issued + 1, resp |-> NoResp,
                        aborted |-> FALSE]]

\* The physical fetch of request id settles.  The finally callback runs
\* first, then every caller awaiting the promise continues in the same
\* microtask checkpoint: the caller that issued the request receives the
\* Response itself, a deduplicated caller receives response.clone().
FetchSettle(id, ok) ==
    /\ id \in DOMAIN requests
    /\ requests' = MapDelete(requests, id)
    /\ pendingRequests' = FinallyDelete(pendingRequests, requests[id].key, ok)
    /\ LET response == [forBody |-> requests[id].body, req |-> id, copy |-> 0]
       IN  fcalls' = [c \in Callers |->
               IF fcalls[c].req = id /\ fcalls[c].pc \in {"awaitOwn", "awaitPending"}
               THEN IF ~ok
                    THEN [fcalls[c] EXCEPT !.pc = "rejected"]
                    ELSE IF fcalls[c].pc = "awaitOwn"
                         THEN [fcalls[c] EXCEPT !.pc = "done", !.resp = response]
                         ELSE [fcalls[c] EXCEPT !.pc = "done",
                                                !.resp = Clone(response, c)]
               ELSE fcalls[c]]
    /\ UNCHANGED issued

\* The physical requests fetch was given the signal of caller c for.
SignalledBy(c) == {id \in DOMAIN requests : requests[id].signal = c}

\* queryModel's setTimeout(() => controller.abort(), ...) fires while the
\* call of caller c is in flight: the fetch that was given c's signal rejects
\* with AbortError, its finally callback runs and everyone awaiting its
\* promise receives the rejection.
TimeoutFires(c) ==
    /\ CallAwaits(c)
    /\ ~fcalls[c].aborted
    /\ LET ids == SignalledBy(c)
       IN  /\ requests' = [id \in DOMAIN requests \ ids |-> requests[id]]
           /\ pendingRequests' =
                  [k \in {k \in DOMAIN pendingRequests : pendingRequests[k] \notin ids}
                      |-> pendingRequests[k]]
           /\ fcalls' = [d \in Callers |->
                  LET f == IF d = c THEN [fcalls[d] EXCEPT !.aborted = TRUE]
                                    ELSE fcalls[d]
                  IN  IF CallAwaits(d) /\ f.req \in ids
                      THEN [f EXCEPT !.pc = "rejected"]
                      ELSE f]
    /\ UNCHANGED issued

\* The caller has consumed its result and may call again.
FetchReturn(c) ==
    /\ fcalls[c].pc \in {"done", "rejected"}
    /\ fcalls' = [fcalls EXCEPT ![c] = IdleCall]
    /\ UNCHANGED <<pendingRequests, requests, issued>>

NextFetch ==
    \/ \E c \in Callers, body \in Bodies :
           OptimizedFetch(c, body) /\ UNCHANGED <<retryVars, streamVars, councilVars>>
    \/ \E id \in 1..MaxFetches, ok \in BOOLEAN :
           FetchSettle(id, ok) /\ UNCHANGED <<retryVars, streamVars, councilVars>>
    \/ \E c \in Callers :
           TimeoutFires(c) /\ UNCHANGED <<retryVars, streamVars, councilVars>>
    \/ \E c \in Callers :
           FetchReturn(c) /\ UNCHANGED <<retryVars, streamVars, councilVars>>

(***************************************************************************)
(*                     Claims about optimizedFetch                         *)
(***************************************************************************)

KeyOf(body) == getRequestKey(OPENROUTER_API_URL, body, "POST")
Awaiting(c) == fcalls[c].pc \in {"awaitOwn", "awaitPending"}

\* C2: calls are served by one physical call only if their full payloads are
\* identical, and every caller receives the response to its own payload.
C2_OwnPayloadOnly ==
    /\ \A c \in Callers :
           Awaiting(c) => requests[fcalls[c].req].body = fcalls[c].body
    /\ \A c \in Callers :
           fcalls[c].pc = "done" => fcalls[c].resp.forBody = fcalls[c].body

\* C3: concurrent calls with an identical coalescing key share exactly one
\* physical request: no two requests in flight have the same key, a caller that
\* found the pending entry awaits the in-flight request of its key, and the
\* callers served by one request each hold a Response object of their own with
\* the same content.
C3_OnePhysicalCallPerKey ==
    /\ \A i, j \in DOMAIN requests :
           requests[i].key = requests[j].key => i = j
    /\ \A c \in Callers :
           Awaiting(c) =>
               /\ fcalls[c].req \in DOMAIN requests
               /\ requests[fcalls[c].req].key = KeyOf(fcalls[c].body)
    /\ \A c, d \in Callers :
           (/\ c # d
            /\ fcalls[c].pc = "done" /\ fcalls[d].pc = "done"
            /\ fcalls[c].resp.req = fcalls[d].resp.req) =>
               /\ fcalls[c].resp.copy # fcalls[d].resp.copy
               /\ fcalls[c].resp.forBody = fcalls[d].resp.forBody

\* Three callers with the same payload were served by one physical request.
C3_Witness ==
    /\ \A c \in Callers : fcalls[c].pc = "done"
    /\ \A c, d \in Callers :
           /\ fcalls[c].body = fcalls[d].body
           /\ fcalls[c].resp.req = fcalls[d].resp.req
    /\ issued = 1

\* C4: the pending entry of a key exists exactly as long as its physical call
\* is in flight: every entry names an in-flight request of that key, every
\* in-flight request has its entry, so on completion (success or failure) the
\* key is absent and the next call with that key issues a new physical call.
C4_PendingEntryLivesWithRequest ==
    /\ \A k \in DOMAIN pendingRequests :
           /\ pendingRequests[k] \in DOMAIN requests
           /\ requests[pendingRequests[k]].key = k
    /\ \A id \in DOMAIN requests :
           /\ requests[id].key \in DOMAIN pendingRequests
           /\ pendingRequests[requests[id].key] = id

\* A physical call failed while two callers waited on it, and a later call
\* with the same key has issued a new physical call.
C4_Witness ==
    \E c, d, e \in Callers :
        /\ c # d
        /\ fcalls[c].pc = "rejected" /\ fcalls[d].pc = "rejected"
        /\ fcalls[c].req = fcalls[d].req
        /\ fcalls[e].pc = "awaitOwn"
        /\ KeyOf(fcalls[e].body) = KeyOf(fcalls[c].body)

\* C29: when the timeout of a call fires (its controller aborts), no other
\* call changes: none is rejected, be it a call with another payload or a
\* call that found the pending entry of the aborted call's request.
C29_TimeoutAbortsOwnCallOnly ==
    [][\A c \in Callers :
           (~fcalls[c].aborted /\ fcalls'[c].aborted) =>
               \A d \in Callers \ {c} : fcalls'[d] = fcalls[d]]_vars

(***************************************************************************)
(*                               retry.ts                                  *)
(***************************************************************************)

\* Bounds of the retry model.
NumRetryCallers == 2
MaxNow == 61000
ClockStep == 20000
HistoryCap == 10

RetryCallers == 1..NumRetryCallers

\* The keys withRetry is called with: `openrouter:${model}`.
Keys == {"openrouter:" \o m : m \in Models}

\* CircuitBreaker constructor defaults.
FailureThreshold == 5
ResetTimeout == 60000
HalfOpenTimeout == 30000

NewBreaker == [failures |-> 0, lastFailureTime |-> 0, state |-> "closed"]

\* getCircuitBreaker(key): the table with key's breaker created if absent.
getCircuitBreaker(table, key) ==
    IF key \in DOMAIN table THEN table ELSE MapSet(table, key, NewBreaker)

\* CircuitBreaker.canExecute() at time t: what it returns and the breaker after.
canExecuteNoWait(b, t) ==
    IF b.state = "open"
    THEN [ok |-> TRUE, breaker |-> [b EXCEPT !.state = "half-open"]]
    ELSE IF b.state = "half-open" /\ t - b.lastFailureTime > HalfOpenTimeout
         THEN [ok |-> TRUE, breaker |-> [b EXCEPT !.state = "closed", !.failures = 0]]
         ELSE [ok |-> TRUE, breaker |-> b]
canExecute(b, t) ==
    IF b.state = "open"
    THEN IF t - b.lastFailureTime > ResetTimeout
         THEN [ok |-> TRUE, breaker |-> [b EXCEPT !.state = "half-open"]]
         ELSE [ok |-> FALSE, breaker |-> b]
    ELSE IF b.state = "half-open" /\ t - b.lastFailureTime > HalfOpenTimeout
         THEN [ok |-> TRUE, breaker |-> [b EXCEPT !.state = "closed", !.failures = 0]]
         ELSE [ok |-> TRUE, breaker |-> b]

\* CircuitBreaker.recordSuccess()
recordSuccessResets(b) ==
    IF b.state = "half-open" \/ b.state = "closed"
    THEN [b EXCEPT !.state = "closed", !.failures = 0]
    ELSE b
recordSuccess(b) ==
    IF b.state = "half-open"
    THEN [b EXCEPT !.state = "closed", !.failures = 0]
    ELSE IF b.state = "closed"
         THEN [b EXCEPT !.failures = Max(0, b.failures - 1)]
         ELSE b

\* CircuitBreaker.recordFailure() at time t
recordFailureLate(b, t) ==
    LET failures == b.failures + 1
    IN  [failures |-> failures,
         lastFailureTime |-> t,
         state |-> IF failures > FailureThreshold /\ b.state # "open"
                   THEN "open" ELSE b.state]
recordFailure(b, t) ==
    LET failures == b.failures + 1
    IN  [failures |-> failures,
         lastFailureTime |-> t,
         state |-> IF failures >= FailureThreshold /\ b.state # "open"
                   THEN "open" ELSE b.state]

\* The options of withRetry's one caller, queryModel: maxRetries, initialDelay
\* and maxDelay as passed, backoffMultiplier by withRetry's default.
QueryModelMaxRetries == 3
QueryModelInitialDelay == 1000
QueryModelMaxDelay == 10000
DefaultBackoffMultiplier == 2

QueryModelOptions ==
    [maxRetries |-> QueryModelMaxRetries, initialDelay |-> QueryModelInitialDelay,
     maxDelay |-> QueryModelMaxDelay, backoffMultiplier |-> DefaultBackoffMultiplier]
RetryOptions == {QueryModelOptions}

\* retryableErrors: the status codes and the error names of the list.
RetryableErrors ==
    [statuses |-> {429, 500, 502, 503, 504},
     names |-> {"AbortError", "ECONNRESET", "ETIMEDOUT"}]

\* An error thrown by the operation: its name, and the first stand-alone
\* three-digit number of its message (0 if it has none).
HttpError(status) == [name |-> "Error", status |-> status]
Errors ==
    {HttpError(429), HttpError(404),
     [name |-> "AbortError", status |-> 0],
     [name |-> "Error", status |-> 0]}
NoError == [name |-> "", status |-> 0]

\* String.prototype.includes
Includes(str, sub) ==
    \E i \in 1..(Len(str) - Len(sub) + 1) : SubSeq(str, i, i + Len(sub) - 1) = sub

\* isRetryableError(error, retryableErrors)
isRetryableAlways(error, retryableErrors) == TRUE
isRetryableError(error, retryableErrors) ==
    IF error.name = "AbortError" \/ error.name = "TypeError"
    THEN TRUE
    ELSE IF error.status # 0
         THEN \/ error.status \in retryableErrors.statuses
              \/ (error.status >= 500 /\ error.status < 600)
         ELSE \E err \in retryableErrors.names
                         \cup {ToString(n) : n \in retryableErrors.statuses} :
                  Includes(error.name, err)

\* sleep(Math.min(delay, maxDelay))
SleepTime(delay, options) == Min(delay, options.maxDelay)

\* delay *= backoffMultiplier
NextDelayLinear(delay, options) == delay + options.initialDelay
NextDelay(delay, options) == delay * options.backoffMultiplier

\* The loop condition's last attempt: attempt === maxRetries
LastAttemptEarly(attempt, options) == attempt = options.maxRetries - 1
LastAttempt(attempt, options) == attempt = options.maxRetries

IdleRetry ==
    [pc |-> "idle", key |-> "", options |-> QueryModelOptions, attempt |-> 0,
     delay |-> 0, timer |-> 0, invocations |-> 0, waits |-> <<>>,
     lastError |-> NoError, result |-> "none", trial |-> FALSE]

\* A call that has returned: what it returned, after how many invocations of
\* fn, and what the last invocation threw.
Returned(call, error, result) ==
    [IdleRetry EXCEPT !.pc = "done", !.key = call.key, !.result = result,
                      !.invocations = call.invocations, !.lastError = error]

\* The summary of the outcomes recorded on a breaker since it was created:
\* failuresOnly counts the failures while no success has been recorded (-1 after
\* one; it stops counting at FailureThreshold + 1), alternating is the length
\* of the history while failures and successes strictly alternate (-1 once they
\* do not; it stops counting at HistoryCap).
NoneRecorded == [failuresOnly |-> 0, alternating |-> 0, last |-> ""]
Record(r, outcome) ==
    [failuresOnly |-> IF outcome = "success" \/ r.failuresOnly = -1 THEN -1
                      ELSE Min(r.failuresOnly + 1, FailureThreshold + 1),
     alternating |-> IF r.alternating = -1 \/ r.last = outcome THEN -1
                     ELSE Min(r.alternating + 1, HistoryCap),
     last |-> outcome]
RecordedOf(key) == IF key \in DOMAIN recorded THEN recorded[key] ELSE NoneRecorded

\* withRetry's caller continues in the microtask that follows the return: no
\* timer or network event comes between a call's return and RetryReturn.
NoneReturning == \A c \in RetryCallers : rcalls[c].pc # "done"

InitRetry ==
    /\ circuitBreakers = <<>>
    /\ now = 0
    /\ rcalls = [c \in RetryCallers |-> IdleRetry]
    /\ recorded = <<>>

\* withRetry(fn, key, options) up to its first suspension: the breaker check
\* and, when it admits the call, the first invocation of fn.  A new call is
\* numbered by the lowest free caller number.
WithRetry(c, key, options) ==
    /\ NoneReturning
    /\ rcalls[c].pc = "idle"
    /\ \A d \in RetryCallers : d < c => rcalls[d].pc # "idle"
    /\ LET table == getCircuitBreaker(circuitBreakers, key)
           check == canExecute(table[key], now)
       IN  /\ circuitBreakers' = [table EXCEPT ![key] = check.breaker]
           /\ rcalls' = [rcalls EXCEPT ![c] =
                  IF ~check.ok
                  THEN [IdleRetry EXCEPT !.pc = "done", !.key = key,
                                         !.options = options, !.result = "null"]
                  ELSE [IdleRetry EXCEPT !.pc = "running", !.key = key,
                                         !.options = options,
                                         !.delay = options.initialDelay,
                                         !.invocations = 1,
                                         !.trial = (table[key].state = "open")]]
    /\ UNCHANGED <<now, recorded>>

\* The invocation of fn in flight settles: it returns (error = NoError) or throws.
AttemptSettles(c, error) ==
    /\ NoneReturning
    /\ rcalls[c].pc = "running"
    /\ LET call == rcalls[c]
           breaker == circuitBreakers[call.key]
       IN  IF error = NoError
           THEN /\ circuitBreakers' =
                       [circuitBreakers EXCEPT ![call.key] = recordSuccess(breaker)]
                /\ recorded' = MapSet(recorded, call.key,
                                      Record(RecordedOf(call.key), "success"))
                /\ rcalls' = [rcalls EXCEPT ![c] = Returned(call, error, "value")]
           ELSE IF \/ ~isRetryableError(error, RetryableErrors)
                   \/ LastAttempt(call.attempt, call.options)
                THEN /\ circuitBreakers' =
                            [circuitBreakers EXCEPT
                                 ![call.key] = recordFailure(breaker, now)]
                     /\ recorded' = MapSet(recorded, call.key,
                                           Record(RecordedOf(call.key), "failure"))
                     /\ rcalls' = [rcalls EXCEPT ![c] = Returned(call, error, "null")]
                ELSE /\ rcalls' = [rcalls EXCEPT
                            ![c].pc = "sleeping",
                            ![c].lastError = error,
                            ![c].timer = SleepTime(call.delay, call.options),
                            ![c].waits = Append(@, SleepTime(call.delay, call.options)),
                            ![c].delay = NextDelay(call.delay, call.options)]
                     /\ UNCHANGED <<circuitBreakers, recorded>>
    /\ UNCHANGED now

\* The backoff sleep is over (its timer has run down): the loop's next
\* iteration invokes fn again.
Wake(c) ==
    /\ NoneReturning
    /\ rcalls[c].pc = "sleeping"
    /\ rcalls[c].timer = 0
    /\ rcalls' = [rcalls EXCEPT ![c].pc = "running",
                                ![c].lastError = NoError,
                                ![c].attempt = @ + 1,
                                ![c].invocations = @ + 1]
    /\ UNCHANGED <<circuitBreakers, now, recorded>>

\* The caller has received withRetry's result and may call again.
RetryReturn(c) ==
    /\ rcalls[c].pc = "done"
    /\ rcalls' = [rcalls EXCEPT ![c] = IdleRetry]
    /\ UNCHANGED <<circuitBreakers, now, recorded>>

\* Time passes: by one clock step, or to the moment a breaker's resetTimeout
\* is reached or just passed.
ClockTargets ==
    {now + ClockStep}
        \cup {circuitBreakers[k].lastFailureTime + ResetTimeout : k \in DOMAIN circuitBreakers}
        \cup {circuitBreakers[k].lastFailureTime + ResetTimeout + 1 : k \in DOMAIN circuitBreakers}
Tick(t) ==
    /\ NoneReturning
    /\ t \in ClockTargets
    /\ t > now
    /\ t <= MaxNow
    /\ now' = t
    /\ rcalls' = [c \in RetryCallers |->
           [rcalls[c] EXCEPT !.timer = Max(0, @ - (t - now))]]
    /\ UNCHANGED <<circuitBreakers, recorded>>

NextRetry ==
    \/ \E c \in RetryCallers, key \in Keys, options \in RetryOptions :
           WithRetry(c, key, options) /\ UNCHANGED <<fetchVars, streamVars, councilVars>>
    \/ \E c \in RetryCallers, error \in Errors \cup {NoError} :
           AttemptSettles(c, error) /\ UNCHANGED <<fetchVars, streamVars, councilVars>>
    \/ \E c \in RetryCallers :
           Wake(c) /\ UNCHANGED <<fetchVars, streamVars, councilVars>>
    \/ \E c \in RetryCallers :
           RetryReturn(c) /\ UNCHANGED <<fetchVars, streamVars, councilVars>>
    \/ \E t \in ClockTargets :
           Tick(t) /\ UNCHANGED <<fetchVars, streamVars, councilVars>>

(***************************************************************************)
(*               Claims about CircuitBreaker and withRetry                 *)
(***************************************************************************)

BreakerOf(key) == circuitBreakers[key]
InFlight(c) == rcalls[c].pc \in {"running", "sleeping"}

\* The step in which caller c calls withRetry for key.
Calls(c, key) ==
    rcalls[c].pc = "idle" /\ rcalls'[c].pc # "idle" /\ rcalls'[c].key = key
\* What the call made in this step did: it was turned away by the breaker
\* without invoking fn, or it invoked fn.
TurnedAway(c) ==
    rcalls'[c].pc = "done" /\ rcalls'[c].result = "null" /\ rcalls'[c].invocations = 0
Admitted(c) == rcalls'[c].pc = "running" /\ rcalls'[c].invocations = 1
\* The step in which caller c's call records a success, a failure.
RecordsSuccess(c) ==
    rcalls[c].pc = "running" /\ rcalls'[c].pc = "done" /\ rcalls'[c].result = "value"
RecordsFailure(c) ==
    rcalls[c].pc = "running" /\ rcalls'[c].pc = "done" /\ rcalls'[c].result = "null"

\* C5: while key's breaker is open and resetTimeout has not elapsed since its
\* last recorded failure, a call for key returns null in the same step, without
\* invoking fn and without changing the breaker.
C5_OpenFailsFast ==
    [][\A c \in RetryCallers, k \in DOMAIN circuitBreakers :
          (/\ Calls(c, k)
           /\ BreakerOf(k).state = "open"
           /\ now - BreakerOf(k).lastFailureTime < ResetTimeout) =>
              /\ TurnedAway(c)
              /\ circuitBreakers' = circuitBreakers]_vars

\* A call has just been turned away by an open breaker.
C5_Witness ==
    \E c \in RetryCallers :
        /\ rcalls[c].pc = "done" /\ rcalls[c].result = "null"
        /\ rcalls[c].invocations = 0
        /\ BreakerOf(rcalls[c].key).state = "open"
        /\ BreakerOf(rcalls[c].key).failures > FailureThreshold
        /\ now - BreakerOf(rcalls[c].key).lastFailureTime < ResetTimeout
        /\ now > BreakerOf(rcalls[c].key).lastFailureTime

\* C6: from a fresh breaker, the failureThreshold-th recorded failure with no
\* success before it leaves the breaker open; a check of an open breaker
\* returns false and leaves it open while resetTimeout has not elapsed since
\* the most recent recorded failure, and returns true and makes it half-open
\* once resetTimeout has elapsed.
C6_OpensThenHalfOpensAfterReset ==
    [][\A k \in Keys :
          /\ (/\ RecordedOf(k).failuresOnly = FailureThreshold - 1
              /\ RecordedOf(k)'.failuresOnly = FailureThreshold) =>
                 BreakerOf(k)'.state = "open"
          /\ \A c \in RetryCallers :
                 (/\ k \in DOMAIN circuitBreakers
                  /\ Calls(c, k)
                  /\ BreakerOf(k).state = "open") =>
                     /\ (now - BreakerOf(k).lastFailureTime < ResetTimeout) =>
                            (TurnedAway(c) /\ BreakerOf(k)'.state = "open")
                     /\ (now - BreakerOf(k).lastFailureTime > ResetTimeout) =>
                            (Admitted(c) /\ BreakerOf(k)'.state = "half-open")]_vars

\* After exactly failureThreshold failures and no success, the check made
\* after resetTimeout has admitted a call and the breaker is half-open.
C6_Witness ==
    \E c \in RetryCallers :
        /\ rcalls[c].pc = "running" /\ rcalls[c].trial
        /\ BreakerOf(rcalls[c].key).state = "half-open"
        /\ RecordedOf(rcalls[c].key).failuresOnly = FailureThreshold
        /\ now - BreakerOf(rcalls[c].key).lastFailureTime > ResetTimeout

\* C7: while the call that moved the breaker from open to half-open is in
\* flight, every further call for the same key is turned away without
\* invoking fn.
C7_SingleTrialCall ==
    [][\A c, d \in RetryCallers :
          (/\ c # d
           /\ rcalls[d].trial /\ InFlight(d)
           /\ Calls(c, rcalls[d].key)) => TurnedAway(c)]_vars

\* C8: a half-open breaker leaves that state only when a call records its
\* outcome: to closed, with the counter at 0, on a recorded success; to open
\* on a recorded failure.
C8_HalfOpenLeftByOutcomeOnly ==
    [][\A k \in DOMAIN circuitBreakers :
          (BreakerOf(k).state = "half-open" /\ BreakerOf(k)'.state # "half-open") =>
              \/ /\ BreakerOf(k)'.state = "closed"
                 /\ BreakerOf(k)'.failures = 0
                 /\ \E c \in RetryCallers : rcalls[c].key = k /\ RecordsSuccess(c)
              \/ /\ BreakerOf(k)'.state = "open"
                 /\ \E c \in RetryCallers : rcalls[c].key = k /\ RecordsFailure(c)]_vars

\* C9: a success recorded on a closed breaker lowers the counter by one, not
\* below zero, and leaves it closed; the failure that brings the counter of a
\* closed breaker to failureThreshold opens it, whatever successes came before;
\* a breaker whose recorded outcomes strictly alternate stays closed.
C9_SuccessDecrements ==
    [][/\ \A c \in RetryCallers :
              LET b == BreakerOf(rcalls[c].key)
                  after == BreakerOf(rcalls[c].key)'
              IN  /\ (RecordsSuccess(c) /\ b.state = "closed") =>
                         /\ after.state = "closed"
                         /\ after.failures =
                                IF b.failures > 0 THEN b.failures - 1 ELSE 0
                  /\ (RecordsFailure(c) /\ b.state = "closed") =>
                         /\ after.failures = b.failures + 1
                         /\ after.state =
                                IF after.failures = FailureThreshold
                                THEN "open" ELSE "closed"
       /\ \A k \in DOMAIN circuitBreakers' :
              RecordedOf(k)'.alternating # -1 => BreakerOf(k)'.state = "closed"]_vars

\* A breaker is open with its counter at failureThreshold although successes
\* were recorded between the failures.
C9_Witness ==
    \E k \in DOMAIN circuitBreakers :
        /\ BreakerOf(k).state = "open"
        /\ BreakerOf(k).failures = FailureThreshold
        /\ RecordedOf(k).failuresOnly = -1
        /\ RecordedOf(k).last = "failure"

\* The errors the specification calls retryable.
RetryableBySpec(error) ==
    \/ error.status \in {429, 500, 502, 503, 504}
    \/ error.name \in {"AbortError", "ECONNRESET", "ETIMEDOUT"}

\* C10: a call invokes fn at most maxRetries + 1 times; it waits only after a
\* retryable error (never after a success), and its k-th wait is
\* min(initialDelay * 2^(k-1), maxDelay); each retry follows one wait.
C10_BoundedBackoff ==
    \A c \in RetryCallers :
        LET call == rcalls[c]
        IN  /\ call.invocations <= call.options.maxRetries + 1
            /\ InFlight(c) => call.invocations = call.attempt + 1
            /\ call.pc = "running" => Len(call.waits) = call.invocations - 1
            /\ call.pc = "sleeping" =>
                   /\ Len(call.waits) = call.invocations
                   /\ call.lastError # NoError
                   /\ RetryableBySpec(call.lastError)
            /\ \A k \in 1..Len(call.waits) :
                   call.waits[k] =
                       Min(call.options.initialDelay * 2^(k - 1), call.options.maxDelay)
            /\ (call.pc = "done" /\ call.result = "value") => call.lastError = NoError

\* A call is in its fourth invocation after waiting 1000, 2000 and 4000 ms.
C10_Witness ==
    \E c \in RetryCallers :
        /\ rcalls[c].pc = "running"
        /\ rcalls[c].invocations = 4
        /\ rcalls[c].waits = <<1000, 2000, 4000>>

\* C11: when the attempt in flight fails with an error that is not retryable,
\* the call returns null in that same step (no backoff wait, no further
\* invocation of fn) and its key's breaker has one more failure, recorded now.
C11_TerminalStopsAtOnce ==
    [][\A c \in RetryCallers :
           (/\ rcalls[c].pc = "running"
            /\ rcalls'[c].pc # "running"
            /\ rcalls'[c].lastError # NoError
            /\ ~RetryableBySpec(rcalls'[c].lastError))
           => /\ rcalls'[c].pc = "done"
              /\ rcalls'[c].result = "null"
              /\ rcalls'[c].invocations = rcalls[c].invocations
              /\ BreakerOf(rcalls[c].key)'.failures =
                     BreakerOf(rcalls[c].key).failures + 1
              /\ BreakerOf(rcalls[c].key)'.lastFailureTime = now]_vars

\* A call has returned null from its second invocation, which failed with
\* HTTP 404 after the first had failed with a retryable error.
C11_Witness ==
    \E c \in RetryCallers :
        /\ rcalls[c].pc = "done"
        /\ rcalls[c].result = "null"
        /\ rcalls[c].lastError = HttpError(404)
        /\ rcalls[c].invocations = 2
        /\ BreakerOf(rcalls[c].key).failures = 1

\* C12: a call always returns a value or null; an attempt that will be retried
\* records nothing; a call whose last error is retryable returns null only
\* after maxRetries + 1 invocations and then records one failure for the whole
\* call; a breaker only changes in a step in which one call for its key is made
\* or returns, so that a call records at most one outcome.
C12_OneOutcomePerCall ==
    [][/\ \A c \in RetryCallers :
              /\ rcalls'[c].pc = "done" => rcalls'[c].result \in {"value", "null"}
              /\ (rcalls[c].pc = "running" /\ rcalls'[c].pc = "sleeping")
                     => UNCHANGED <<circuitBreakers, recorded>>
              /\ (RecordsFailure(c) /\ RetryableBySpec(rcalls'[c].lastError))
                     => /\ rcalls'[c].invocations = rcalls[c].options.maxRetries + 1
                        /\ BreakerOf(rcalls[c].key)'.failures =
                               BreakerOf(rcalls[c].key).failures + 1
       /\ \A k \in DOMAIN circuitBreakers :
              BreakerOf(k)' # BreakerOf(k)
                  => Cardinality({c \in RetryCallers :
                            \/ Calls(c, k)
                            \/ (rcalls[c].key = k /\ RecordsSuccess(c))
                            \/ (rcalls[c].key = k /\ RecordsFailure(c))}) = 1]_vars

\* A call has returned null after four invocations that all failed with
\* HTTP 429, and its key's breaker counts one failure.
C12_Witness ==
    \E c \in RetryCallers :
        /\ rcalls[c].pc = "done"
        /\ rcalls[c].result = "null"
        /\ rcalls[c].lastError = HttpError(429)
        /\ rcalls[c].invocations = 4
        /\ BreakerOf(rcalls[c].key).failures = 1
        /\ RecordedOf(rcalls[c].key) = Record(NoneRecorded, "failure")

\* C37: a breaker is closed exactly when its failure counter is below
\* failureThreshold (an open or half-open breaker has a counter of at least
\* failureThreshold), and the counter is never negative.
C37_ClosedIffBelowThreshold ==
    \A k \in DOMAIN circuitBreakers :
        /\ BreakerOf(k).failures >= 0
        /\ BreakerOf(k).state = "closed" <=> BreakerOf(k).failures < FailureThreshold

\* A half-open breaker whose counter passed failureThreshold while it was
\* open, and whose key has had a success recorded while it was closed.
C37_Witness ==
    \E k \in DOMAIN circuitBreakers :
        /\ BreakerOf(k).state = "half-open"
        /\ BreakerOf(k).failures > FailureThreshold
        /\ RecordedOf(k).failuresOnly = -1

\* The step in which caller c's call invokes fn: the first attempt of a call
\* that was admitted, or a retry after a backoff wait.
Invokes(c) == rcalls'[c].invocations > rcalls[c].invocations

\* C31: fn is never invoked for a key whose breaker is open; a call that is
\* waiting for its retry when other calls' failures open the breaker makes no
\* further attempt.
C31_NoAttemptWhileOpen ==
    [][\A c \in RetryCallers :
           Invokes(c) => circuitBreakers'[rcalls'[c].key].state # "open"]_vars

(***************************************************************************)
(* openrouter.ts: queryModel, that is withRetry around optimizedFetch with *)
(* one AbortController and one timeout for the whole call.  The calls share *)
(* pendingRequests and circuitBreakers with everything else in the process. *)
(***************************************************************************)

\* Bound of the queryModel model.
NumQueryCallers == 2

QueryCallers == 1..NumQueryCallers

\* What the physical request of an attempt can come to: a response that is ok
\* (NoError), or an error response that fn turns into `HTTP ${statusCode}`.
QueryOutcomes == {NoError, HttpError(429), HttpError(404)}

\* What fetch rejects with once controller.abort() has been called.
AbortError == [name |-> "AbortError", status |-> 0]

\* A queryModel call: own tells whether the request it awaits was issued by
\* this call (with its signal); aborted is its controller's signal.aborted.
\* rejectedAtOnce and borrowed note what happened since the signal aborted: a
\* fetch issued with the aborted signal, an await of another call's request.
IdleQuery ==
    [pc |-> "idle", model |-> "", body |-> "", req |-> 0, own |-> FALSE,
     attempt |-> 0, aborted |-> FALSE, result |-> "none",
     rejectedAtOnce |-> FALSE, borrowed |-> FALSE]

\* The number fetch's promise is known by in requests: the lowest one free.
FreshRequest(reqs) == CHOOSE id \in 1..(NumQueryCallers + 1) :
    /\ id \notin DOMAIN reqs
    /\ \A other \in 1..(id - 1) : other \in DOMAIN reqs

\* withRetry's catch block for call q, with the breaker of its key: the call
\* and the breaker after it.
Catch(q, error, b, t) ==
    IF \/ ~isRetryableError(error, RetryableErrors)
       \/ LastAttempt(q.attempt, QueryModelOptions)
    THEN [call |-> [q EXCEPT !.pc = "done", !.result = "null", !.req = 0,
                             !.own = FALSE],
          breaker |-> recordFailure(b, t)]
    ELSE [call |-> [q EXCEPT !.pc = "sleeping", !.req = 0, !.own = FALSE],
          breaker |-> b]

\* withRetry's try block for call q when fn has returned a response.
Succeed(q, b) ==
    [call |-> [q EXCEPT !.pc = "done", !.result = "value", !.req = 0,
                        !.own = FALSE],
     breaker |-> recordSuccess(b)]

\* An attempt of call c, record q: fn() up to its first suspension and, when
\* fetch rejects at once, withRetry's catch block after it.  With a pending
\* entry for the key the attempt awaits that promise (the signal is not used);
\* without one, fetch is called with the call's signal: it rejects at once if
\* the signal has aborted (the entry set for its promise is deleted again by
\* the finally callback before anything else runs), otherwise the request is
\* in flight.
Attempt(c, q, pending, reqs, b, t) ==
    LET requestKey == getRequestKey(OPENROUTER_API_URL, q.body, "POST")
        pendingRequest == PendingGet(pending, requestKey)
        id == FreshRequest(reqs)
    IN  IF pendingRequest # 0
        THEN [call |-> [q EXCEPT !.pc = "fetching", !.req = pendingRequest,
                                 !.own = FALSE, !.borrowed = @ \/ q.aborted],
              breaker |-> b, pending |-> pending, requests |-> reqs]
        ELSE IF q.aborted
        THEN LET caught == Catch([q EXCEPT !.rejectedAtOnce = TRUE], AbortError, b, t)
             IN  [call |-> caught.call, breaker |-> caught.breaker,
                  pending |-> pending, requests |-> reqs]
        ELSE [call |-> [q EXCEPT !.pc = "fetching", !.req = id, !.own = TRUE],
              breaker |-> b,
              pending |-> MapSet(pending, requestKey, id),
              requests |-> MapSet(reqs, id,
                              [key |-> requestKey, body |-> q.body, signal |-> c])]

\* The continuations of the calls awaiting the requests ids, each with the
\* same outcome, run one after the other: the calls and the breakers after.
RECURSIVE Continue(_, _, _, _, _, _)
Continue(calls, table, ids, outcome, t, cs) ==
    IF cs = {}
    THEN [calls |-> calls, table |-> table]
    ELSE LET c == CHOOSE x \in cs : \A y \in cs : x <= y
             q == calls[c]
             key == "openrouter:" \o q.model
             after == IF outcome = NoError
                      THEN Succeed(q, table[key])
                      ELSE Catch(q, outcome, table[key], t)
         IN  IF q.pc = "fetching" /\ q.req \in ids
             THEN Continue([calls EXCEPT ![c] = after.call],
                           [table EXCEPT ![key] = after.breaker],
                           ids, outcome, t, cs \ {c})
             ELSE Continue(calls, table, ids, outcome, t, cs \ {c})

InitQuery == qcalls = [c \in QueryCallers |-> IdleQuery]

\* A call's result is consumed by its caller in the microtask that follows.
NoQueryReturning == \A c \in QueryCallers : qcalls[c].pc # "done"

\* queryModel(model, messages, timeout, false) up to its first suspension:
\* the controller and the timeout are created, withRetry checks the breaker
\* and, when admitted, makes the first attempt.
QueryModel(c, model, content) ==
    /\ NoQueryReturning
    /\ qcalls[c].pc = "idle"
    /\ \A d \in QueryCallers : d < c => qcalls[d].pc # "idle"
    /\ LET key == "openrouter:" \o model
           table == getCircuitBreaker(circuitBreakers, key)
           check == canExecute(table[key], now)
           q == [IdleQuery EXCEPT !.model = model,
                                  !.body = JsonPayload(model, Stage1Content(content))]
           first == Attempt(c, q, pendingRequests, requests, check.breaker, now)
       IN  IF ~check.ok
           THEN /\ qcalls' = [qcalls EXCEPT ![c] =
                                  [q EXCEPT !.pc = "done", !.result = "null"]]
                /\ circuitBreakers' = [table EXCEPT ![key] = check.breaker]
                /\ UNCHANGED <<pendingRequests, requests>>
           ELSE /\ qcalls' = [qcalls EXCEPT ![c] = first.call]
                /\ circuitBreakers' = [table EXCEPT ![key] = first.breaker]
                /\ pendingRequests' = first.pending
                /\ requests' = first.requests
    /\ UNCHANGED <<issued, fcalls, now, rcalls, recorded>>

\* The physical request id settles with a response: the finally callback
\* deletes the pending entry and the calls awaiting the promise continue.
QuerySettle(id, outcome) ==
    /\ NoQueryReturning
    /\ id \in DOMAIN requests
    /\ requests' = MapDelete(requests, id)
    /\ pendingRequests' = FinallyDelete(pendingRequests, requests[id].key, TRUE)
    /\ LET after == Continue(qcalls, circuitBreakers, {id}, outcome, now,
                             QueryCallers)
       IN  /\ qcalls' = after.calls
           /\ circuitBreakers' = after.table
    /\ UNCHANGED <<issued, fcalls, now, rcalls, recorded>>

\* The timeout of call c fires: controller.abort().  A request in flight that
\* was given c's signal rejects with AbortError for everyone awaiting it; a
\* call that awaits another call's request, or sleeps, just goes on.
QueryTimeout(c) ==
    /\ NoQueryReturning
    /\ qcalls[c].pc \in {"fetching", "sleeping"}
    /\ ~qcalls[c].aborted
    /\ LET ids == SignalledBy(c)
           marked == [qcalls EXCEPT ![c].aborted = TRUE,
                                    ![c].borrowed =
                                        qcalls[c].pc = "fetching" /\ ~qcalls[c].own]
           after == Continue(marked, circuitBreakers, ids, AbortError, now,
                             QueryCallers)
       IN  /\ requests' = [id \in DOMAIN requests \ ids |-> requests[id]]
           /\ pendingRequests' =
                  [k \in {k \in DOMAIN pendingRequests : pendingRequests[k] \notin ids}
                      |-> pendingRequests[k]]
           /\ qcalls' = after.calls
           /\ circuitBreakers' = after.table
    /\ UNCHANGED <<issued, fcalls, now, rcalls, recorded>>

\* The backoff sleep of call c is over: the next attempt.
QueryWake(c) ==
    /\ NoQueryReturning
    /\ qcalls[c].pc = "sleeping"
    /\ LET key == "openrouter:" \o qcalls[c].model
           next == Attempt(c, [qcalls[c] EXCEPT !.attempt = @ + 1],
                           pendingRequests, requests, circuitBreakers[key], now)
       IN  /\ qcalls' = [qcalls EXCEPT ![c] = next.call]
           /\ circuitBreakers' = [circuitBreakers EXCEPT ![key] = next.breaker]
           /\ pendingRequests' = next.pending
           /\ requests' = next.requests
    /\ UNCHANGED <<issued, fcalls, now, rcalls, recorded>>

\* withRetry has returned: clearTimeout(timeoutId), and queryModel returns.
QueryReturn(c) ==
    /\ qcalls[c].pc = "done"
    /\ qcalls' = [qcalls EXCEPT ![c] = IdleQuery]
    /\ UNCHANGED <<fetchVars, retryVars>>

NextQuery ==
    \/ \E c \in QueryCallers, model \in Models, content \in Questions :
           QueryModel(c, model, content)
               /\ UNCHANGED <<streamVars, round, ranking, aggregation, cacheVars,
                              routeVars, storageVars>>
    \/ \E id \in 1..NumQueryCallers, outcome \in QueryOutcomes :
           QuerySettle(id, outcome)
               /\ UNCHANGED <<streamVars, round, ranking, aggregation, cacheVars,
                              routeVars, storageVars>>
    \/ \E c \in QueryCallers :
           QueryTimeout(c)
               /\ UNCHANGED <<streamVars, round, ranking, aggregation, cacheVars,
                              routeVars, storageVars>>
    \/ \E c \in QueryCallers :
           QueryWake(c)
               /\ UNCHANGED <<streamVars, round, ranking, aggregation, cacheVars,
                              routeVars, storageVars>>
    \/ \E c \in QueryCallers :
           QueryReturn(c)
               /\ UNCHANGED <<streamVars, round, ranking, aggregation, cacheVars,
                              routeVars, storageVars>>

(***************************************************************************)
(*                         Claims about queryModel                         *)
(***************************************************************************)

\* The step in which call c returns from withRetry.
QueryReturns(c) == qcalls[c].pc \in {"fetching", "sleeping"} /\ qcalls'[c].pc = "done"

\* The step in which call c, its signal aborted, makes an attempt with no
\* pending entry for its key: it calls fetch itself.
FetchesAborted(c) ==
    /\ qcalls[c].pc = "sleeping"
    /\ qcalls[c].aborted
    /\ PendingGet(pendingRequests,
                  getRequestKey(OPENROUTER_API_URL, qcalls[c].body, "POST")) = 0
    /\ qcalls'[c] # qcalls[c]

\* C33: the timeout of a call is armed once for all its attempts and waits:
\* once it has fired the signal stays aborted until the call returns, every
\* later attempt that calls fetch itself is rejected in the same step (nothing
\* is in flight for it), and the call returns null, after its last retry.
C33_TimeoutCoversAllAttempts ==
    [][\A c \in QueryCallers :
           /\ (qcalls[c].aborted /\ qcalls[c].pc # "done") => qcalls'[c].aborted
           /\ FetchesAborted(c) =>
                  /\ qcalls'[c].pc \in {"sleeping", "done"}
                  /\ qcalls'[c].rejectedAtOnce
                  /\ requests' = requests
                  /\ pendingRequests' = pendingRequests
           /\ (qcalls[c].aborted /\ QueryReturns(c)) =>
                  /\ qcalls'[c].result = "null"
                  /\ qcalls'[c].attempt = QueryModelOptions.maxRetries]_vars

(***************************************************************************)
(* stream-optimizer.ts: OptimizedSSEStream, driven by one round of the     *)
(* streaming route of main.ts.                                             *)
(*                                                                         *)
(* Synchronous code runs to its next await in one step.  Continuations of  *)
(* settled promises (microtasks) run before any timer, 'drain' or I/O      *)
(* callback: the handler's writeEvent and close steps, and the flushes     *)
(* resumed by one 'drain', are not interleaved with timer ticks.           *)
(***************************************************************************)
highWaterMark == 16384
chunkSize == 8192

\* Sizes (bytes) of the results serialised into stage*_complete events.
PayloadSizes == {500, 9000, 17000}

\* writeEvent: `data: ${JSON.stringify({ type, data })}\n\n`
EventText(type, data) ==
    "data: {\"type\":\"" \o type \o "\",\"data\":" \o data \o "}\n\n"

ByteLength(str) == Len(str)

EventTypes ==
    {"stage1_start", "stage1_complete", "stage2_start", "stage2_complete",
     "stage3_start", "stage3_complete", "title_complete", "complete", "error"}

ResultEvents == {"stage1_complete", "stage2_complete", "stage3_complete"}

TitleData == "{\"title\":\"New Conversation\"}"
ErrorData == "{\"message\":\"Conversation c1 not found\"}"

EventData(type) ==
    CASE type = "title_complete" -> TitleData
      [] type = "error"          -> ErrorData
      [] type \in ResultEvents   -> ""
      [] OTHER                   -> "{}"

\* The byte lengths an event of this type can have.
EventSizes(type) ==
    IF type \in ResultEvents
    THEN {ByteLength(EventText(type, "")) + p : p \in PayloadSizes}
    ELSE {ByteLength(EventText(type, EventData(type)))}

AwaitOp(what) == [op |-> "await", what |-> what]
WriteOp(type) == [op |-> "write", what |-> type]

TryBlockCompleteFirst(isFirstMessage) ==
    <<AwaitOp("addUserMessage"),
      WriteOp("stage1_start"), AwaitOp("stage1CollectResponses"),
      WriteOp("stage1_complete"),
      WriteOp("stage2_start"), AwaitOp("stage2CollectRankings"),
      WriteOp("stage2_complete"),
      WriteOp("stage3_start"), AwaitOp("stage3SynthesizeFinal"),
      WriteOp("stage3_complete")>>
    \o (IF isFirstMessage
        THEN <<AwaitOp("titlePromise"), AwaitOp("updateConversationTitle"),
               WriteOp("title_complete")>>
        ELSE <<>>)
    \o <<WriteOp("complete"), AwaitOp("addAssistantMessage")>>
\* The try block of the route handler, as the sequence of its awaits.
TryBlock(isFirstMessage) ==
    <<AwaitOp("addUserMessage"),
      WriteOp("stage1_start"), AwaitOp("stage1CollectResponses"),
      WriteOp("stage1_complete"),
      WriteOp("stage2_start"), AwaitOp("stage2CollectRankings"),
      WriteOp("stage2_complete"),
      WriteOp("stage3_start"), AwaitOp("stage3SynthesizeFinal"),
      WriteOp("stage3_complete")>>
    \o (IF isFirstMessage
        THEN <<AwaitOp("titlePromise"), AwaitOp("updateConversationTitle"),
               WriteOp("title_complete")>>
        ELSE <<>>)
    \o <<AwaitOp("addAssistantMessage"), WriteOp("complete")>>

\* The storage calls throw when the conversation file is missing or unreadable.
Throwing == {"addUserMessage", "updateConversationTitle", "addAssistantMessage"}

\* The statement the handler is at.
Instruction ==
    CASE handler.block = "try"     -> TryBlock(handler.isFirstMessage)[handler.pc]
      [] handler.block = "catch"   -> WriteOp("error")
      [] handler.block = "finally" -> [op |-> "close", what |-> "stream"]
      [] OTHER                     -> [op |-> "none", what |-> ""]

AdvanceSkipsFinally(h) ==
    IF h.block = "try" /\ h.pc < Len(TryBlock(h.isFirstMessage))
    THEN [h EXCEPT !.pc = @ + 1, !.blocked = FALSE]
    ELSE [h EXCEPT !.block = IF h.block = "try" THEN "finally" ELSE "done",
                   !.pc = 1, !.blocked = FALSE]
\* The handler after the statement at pc completed normally.
Advance(h) ==
    IF h.block = "try" /\ h.pc < Len(TryBlock(h.isFirstMessage))
    THEN [h EXCEPT !.pc = @ + 1, !.blocked = FALSE]
    ELSE [h EXCEPT !.block = IF h.block = "finally" THEN "done" ELSE "finally",
                   !.pc = 1, !.blocked = FALSE]

NewTransport ==
    [written |-> <<>>, ended |-> 0, needDrain |-> FALSE, afterEnd |-> 0,
     failed |-> FALSE]

ResponseWriteFirst(tr, chunk, accepts) ==
    [transport |-> [tr EXCEPT !.written = <<chunk>> \o @,
                              !.needDrain = @ \/ ~accepts],
     canContinue |-> accepts]
\* response.write(chunkData): the transport takes the chunk and says whether it
\* can take more; a write after end() is refused.
ResponseWrite(tr, chunk, accepts) ==
    IF tr.ended > 0
    THEN [transport |-> [tr EXCEPT !.afterEnd = @ + 1], canContinue |-> FALSE]
    ELSE [transport |-> [tr EXCEPT !.written = Append(@, chunk),
                                   !.needDrain = @ \/ ~accepts],
          canContinue |-> accepts]

\* The inner loop of flush: the number of items shifted into one chunk.
RECURSIVE CollectChunk(_, _, _)
CollectChunk(buf, taken, size) ==
    IF taken < Len(buf) /\ size < chunkSize
    THEN CollectChunk(buf, taken + 1, size + buf[taken + 1].size)
    ELSE taken

\* The outer loop of flush, up to its end, to the first write the transport
\* answers with false, or to the write that throws; the first n writes are
\* answered with true, and the next one throws if fails is set.
RECURSIVE FlushLoop(_, _, _, _)
FlushLoopOnce(buf, tr, n, fails) ==
    LET k == CollectChunk(buf, 0, 0)
    IN  [buffer |-> SubSeq(buf, k + 1, Len(buf)),
         transport |-> ResponseWrite(tr, SubSeq(buf, 1, k), TRUE).transport,
         blocked |-> FALSE, threw |-> FALSE]
FlushLoop(buf, tr, n, fails) ==
    IF Len(buf) = 0
    THEN [buffer |-> buf, transport |-> tr, blocked |-> FALSE, threw |-> FALSE]
    ELSE LET k == CollectChunk(buf, 0, 0)
             w == ResponseWrite(tr, SubSeq(buf, 1, k), n > 0)
             rest == SubSeq(buf, k + 1, Len(buf))
         IN  IF n = 0 /\ fails
             THEN [buffer |-> rest, transport |-> [tr EXCEPT !.failed = TRUE],
                   blocked |-> FALSE, threw |-> TRUE]
             ELSE IF w.canContinue
             THEN FlushLoop(rest, w.transport, n - 1, fails)
             ELSE [buffer |-> rest, transport |-> w.transport, blocked |-> TRUE,
                   threw |-> FALSE]

\* The stream object's fields as one record.
Stream ==
    [buffer |-> buffer, bufferSize |-> bufferSize, flushTimer |-> flushTimer,
     isClosed |-> isClosed, transport |-> transport, suspended |-> suspended,
     blocked |-> FALSE]

\* close up to its await: the flag is set and the timer is cleared.
MarkClosed(s) == [s EXCEPT !.isClosed = TRUE, !.flushTimer = FALSE]

\* close from its await on: flush returns at once, for isClosed is set, and
\* response.end() follows.
EndResponse(s) == [s EXCEPT !.transport.ended = @ + 1]

\* close called from the catch block of flush (not awaited: its continuation
\* runs as a microtask, ahead of every timer and I/O callback).
closeInCatch(s) == IF s.isClosed THEN s ELSE EndResponse(MarkClosed(s))

\* flush from its while loop on: run by owner ("timer" or "write").
FlushBody(s, n, fails, owner) ==
    LET r == FlushLoop(s.buffer, s.transport, n, fails)
    IN  IF r.threw
        THEN closeInCatch([s EXCEPT !.buffer = r.buffer, !.transport = r.transport,
                                    !.blocked = FALSE])
        ELSE IF r.blocked
        THEN [s EXCEPT !.buffer = r.buffer, !.transport = r.transport,
                       !.suspended.waiting = Append(@, owner),
                       !.blocked = TRUE]
        ELSE [s EXCEPT !.buffer = r.buffer, !.transport = r.transport,
                       !.bufferSize = 0, !.blocked = FALSE]

flush(s, n, fails, owner) ==
    IF Len(s.buffer) = 0 \/ s.isClosed
    THEN [s EXCEPT !.blocked = FALSE]
    ELSE FlushBody(s, n, fails, owner)

write(s, event, n, fails) ==
    IF s.isClosed
    THEN [s EXCEPT !.blocked = FALSE]
    ELSE LET t == [s EXCEPT !.buffer = Append(@, event),
                            !.bufferSize = @ + event.size]
         IN  IF t.bufferSize >= highWaterMark
             THEN flush(t, n, fails, "write")
             ELSE [t EXCEPT !.blocked = FALSE]

closeAgain(s) == EndResponse(flush(MarkClosed(s), 0, FALSE, "close"))
close(s) ==
    IF s.isClosed
    THEN s
    ELSE EndResponse(flush(MarkClosed(s), 0, FALSE, "close"))

\* The stream fields take the values of record s.
SetStream(s) ==
    /\ buffer' = s.buffer
    /\ bufferSize' = s.bufferSize
    /\ flushTimer' = s.flushTimer
    /\ isClosed' = s.isClosed
    /\ transport' = s.transport
    /\ suspended' = s.suspended

\* The handler; persisted lists the turns its storage calls have stored, and
\* threwAt names the awaited call that threw.
NoHandler ==
    [block |-> "request", pc |-> 1, isFirstMessage |-> FALSE, blocked |-> FALSE,
     persisted |-> <<>>, threwAt |-> ""]

\* The turns stored once the awaited call what has returned.
Persisted(turns, what) ==
    CASE what = "addUserMessage"      -> Append(turns, "user")
      [] what = "addAssistantMessage" -> Append(turns, "assistant")
      [] OTHER                        -> turns

InitStream ==
    /\ buffer = <<>>
    /\ bufferSize = 0
    /\ flushTimer = FALSE
    /\ isClosed = FALSE
    /\ transport = NewTransport
    /\ suspended = [waiting |-> <<>>, ready |-> <<>>]
    /\ handler = NoHandler
    /\ accepted = <<>>

\* The handler has a continuation to run that waits for nothing outside.
HandlerRunnable ==
    /\ ~handler.blocked
    /\ Instruction.op \in {"write", "close"}

\* No continuation is queued: timers and I/O callbacks may run.
EventLoopIdle ==
    /\ suspended.ready = <<>>
    /\ ~HandlerRunnable

\* The route finds the conversation and constructs the stream, which starts
\* the periodic flush timer.
StreamRoute(isFirstMessage) ==
    /\ handler.block = "request"
    /\ handler' = [handler EXCEPT !.block = "try", !.isFirstMessage = isFirstMessage]
    /\ flushTimer' = TRUE
    /\ UNCHANGED <<buffer, bufferSize, isClosed, transport, suspended, accepted>>
    /\ UNCHANGED <<fetchVars, retryVars, councilVars>>

\* An awaited step of the round (storage call, stage, title) settles.
AwaitSettles(throws) ==
    /\ EventLoopIdle
    /\ Instruction.op = "await"
    /\ throws => Instruction.what \in Throwing
    /\ handler' = IF throws
                  THEN [handler EXCEPT !.block = "catch", !.pc = 1,
                                       !.threwAt = Instruction.what]
                  ELSE Advance([handler EXCEPT
                                    !.persisted = Persisted(@, Instruction.what)])
    /\ UNCHANGED <<buffer, bufferSize, flushTimer, isClosed, transport, suspended,
                   accepted>>
    /\ UNCHANGED <<fetchVars, retryVars, councilVars>>

\* await stream.writeEvent(type, data)
WriteEvent(size, n, fails) ==
    /\ suspended.ready = <<>>
    /\ HandlerRunnable
    /\ Instruction.op = "write"
    /\ size \in EventSizes(Instruction.what)
    /\ LET event == [type |-> Instruction.what, size |-> size]
           s == write(Stream, event, n, fails)
       IN  /\ SetStream(s)
           /\ accepted' = IF isClosed THEN accepted ELSE Append(accepted, event)
           /\ handler' = IF s.blocked THEN [handler EXCEPT !.blocked = TRUE]
                                      ELSE Advance(handler)
    /\ UNCHANGED <<fetchVars, retryVars, councilVars>>

\* finally { await stream.close() }
Close ==
    /\ suspended.ready = <<>>
    /\ HandlerRunnable
    /\ Instruction.op = "close"
    /\ SetStream(close(Stream))
    /\ handler' = Advance(handler)
    /\ UNCHANGED accepted
    /\ UNCHANGED <<fetchVars, retryVars, councilVars>>

\* The setInterval callback: this.flush()
TimerTick(n, fails) ==
    /\ EventLoopIdle
    /\ flushTimer
    /\ Len(buffer) > 0
    /\ SetStream(flush(Stream, n, fails, "timer"))
    /\ UNCHANGED <<handler, accepted>>
    /\ UNCHANGED <<fetchVars, retryVars, councilVars>>

\* The transport emits 'drain': every flush waiting for it is resumed.
Drain ==
    /\ EventLoopIdle
    /\ transport.needDrain
    /\ transport' = [transport EXCEPT !.needDrain = FALSE]
    /\ suspended' = [waiting |-> <<>>, ready |-> suspended.waiting]
    /\ UNCHANGED <<buffer, bufferSize, flushTimer, isClosed, handler, accepted>>
    /\ UNCHANGED <<fetchVars, retryVars, councilVars>>

\* A resumed flush continues its while loop.
ResumeFlush(n, fails) ==
    /\ suspended.ready # <<>>
    /\ LET owner == Head(suspended.ready)
           s == FlushBody([Stream EXCEPT !.suspended.ready = Tail(@)], n, fails, owner)
       IN  /\ SetStream(s)
           /\ handler' = IF owner = "write" /\ ~s.blocked THEN Advance(handler)
                                                          ELSE handler
    /\ UNCHANGED accepted
    /\ UNCHANGED <<fetchVars, retryVars, councilVars>>

NextStream ==
    \/ \E isFirstMessage \in BOOLEAN : StreamRoute(isFirstMessage)
    \/ \E throws \in BOOLEAN : AwaitSettles(throws)
    \/ \E size \in UNION {EventSizes(type) : type \in EventTypes},
          n \in 0..Len(buffer) + 1, fails \in BOOLEAN : WriteEvent(size, n, fails)
    \/ Close
    \/ \E n \in 0..Len(buffer), fails \in BOOLEAN : TimerTick(n, fails)
    \/ Drain
    \/ \E n \in 0..Len(buffer), fails \in BOOLEAN : ResumeFlush(n, fails)

\* Every event handed to the transport before it was ended, in order.
RECURSIVE Flatten(_)
Flatten(chunks) ==
    IF chunks = <<>> THEN <<>> ELSE Head(chunks) \o Flatten(Tail(chunks))

Delivered == Flatten(transport.written)

\* C1: when close has ended the transport, every event that write accepted
\* before has been handed to the transport (in particular the round's last
\* 'complete' or 'error' event), whatever the periodic flush did.
C1_CloseFlushesAccepted ==
    transport.ended > 0 =>
        \A i \in 1..Len(accepted) :
            \E j \in 1..Len(Delivered) : Delivered[j] = accepted[i]

\* The types of the events write accepted, in order.
AcceptedTypes == [i \in 1..Len(accepted) |-> accepted[i].type]

HasWritten(type) == \E i \in 1..Len(accepted) : accepted[i].type = type

\* C21: in a streamed round a throwing step is followed by the write of an
\* error event, which is the last event the round writes, and by close as
\* the handler's next step; no round writes both complete and error; and
\* when the handler has returned, by whichever path, the stream is closed:
\* the timer is stopped and the transport is ended.  (A stream that flush
\* closed because response.write threw accepts no event any more, the error
\* event included.)
C21_ErrorPreemptsAndCloses ==
    /\ [](/\ \A i \in 1..Len(accepted) :
                 accepted[i].type \in {"error", "complete"} => i = Len(accepted)
          /\ ~(HasWritten("error") /\ HasWritten("complete"))
          /\ handler.block = "catch" => ~HasWritten("error")
          /\ (handler.block \in {"try", "catch"} /\ isClosed) => transport.failed
          /\ handler.block \in {"finally", "done"} =>
                 HasWritten("error") \/ HasWritten("complete") \/ transport.failed
          /\ handler.block = "done" =>
                 isClosed /\ ~flushTimer /\ transport.ended = 1)
    /\ [][/\ (handler.block = "try" /\ handler'.block # "try") =>
                 \/ handler'.block = "catch" /\ Instruction.op = "await"
                 \/ /\ handler'.block = "finally"
                    /\ Instruction = WriteOp("complete")
                    /\ HasWritten("complete")' \/ transport.failed
          /\ (handler.block = "catch" /\ handler'.block # "catch") =>
                 /\ handler'.block = "finally"
                 /\ HasWritten("error")' \/ transport.failed
          /\ (handler.block = "catch" /\ handler' # handler /\ ~isClosed) =>
                 accepted' = Append(accepted, [type |-> "error",
                                               size |-> ByteLength(EventText("error", ErrorData))])
          /\ (handler.block = "finally" /\ handler' # handler) =>
                 /\ handler'.block = "done"
                 /\ isClosed'
                 /\ accepted' = accepted]_vars

\* addAssistantMessage threw after six events were written; the error event
\* followed and the handler has closed the stream.
C21_Witness ==
    /\ handler.block = "done"
    /\ isClosed
    /\ Len(accepted) = 7
    /\ AcceptedTypes[6] = "stage3_complete"
    /\ AcceptedTypes[7] = "error"

\* C22: the events handed to the transport are, in order, the first of the
\* events write accepted: none is handed over twice, none before an earlier
\* one, whatever flushes (of write, of the timer, resumed by 'drain') ran.
C22_DeliveredIsPrefix ==
    /\ Len(Delivered) <= Len(accepted)
    /\ Delivered = SubSeq(accepted, 1, Len(Delivered))

\* Two flushes are suspended for the same 'drain', more events are buffered
\* behind the chunks they wrote, and the transport has three chunks.
C22_Witness ==
    /\ Len(suspended.waiting) >= 2
    /\ Len(transport.written) >= 3
    /\ Len(buffer) >= 1
    /\ ~isClosed

\* C23: while the transport, having answered a write with false, has not
\* emitted 'drain', no chunk is handed to it.
C23_NoWriteBeforeDrain ==
    [][transport.needDrain => transport'.written = transport.written]_vars

\* The handler calls write or close now (it does not wait in a flush).
HandlerCalls(op) ==
    /\ ~handler.blocked
    /\ Instruction.op = op
    /\ handler' # handler

\* C24: the close that finds the stream open stops the timer and ends the
\* transport; the transport is never ended twice; a close of a closed stream
\* changes nothing of the stream, and a write to a closed stream changes
\* nothing either and returns normally (the handler goes on to its next
\* statement, not to its catch block).
C24_CloseIsIdempotent ==
    /\ [](/\ transport.ended <= 1
          /\ isClosed => ~flushTimer /\ transport.ended = 1)
    /\ [][/\ isClosed => isClosed'
          /\ (~isClosed /\ isClosed') => ~flushTimer' /\ transport'.ended = 1
          /\ (isClosed /\ HandlerCalls("close")) =>
                 /\ UNCHANGED <<buffer, bufferSize, flushTimer, isClosed, transport,
                                suspended, accepted>>
                 /\ handler' = Advance(handler)
          /\ (isClosed /\ HandlerCalls("write")) =>
                 /\ UNCHANGED <<buffer, bufferSize, flushTimer, isClosed, transport,
                                suspended, accepted>>
                 /\ handler' = Advance(handler)]_vars

\* flush closed the stream when response.write threw, with an event still
\* buffered; the handler then wrote further events and called close, and the
\* buffer is as it was.
C24_Witness ==
    /\ handler.block = "done"
    /\ transport.failed
    /\ transport.ended = 1
    /\ Len(accepted) <= 3
    /\ Len(buffer) = 1

\* The periodic timer's callback runs flush in this step.
TimerFlushes ==
    /\ suspended.ready = <<>>
    /\ flushTimer
    /\ handler' = handler
    /\ buffer' # buffer

\* The transport takes what it is given in this step: it neither waits for
\* 'drain' nor fails.
TransportAccepts ==
    /\ ~transport.needDrain
    /\ ~transport'.needDrain
    /\ ~transport'.failed

\* C25: a tick of the periodic timer on an open stream whose buffer is below
\* the high-water mark hands every buffered event to the transport, when the
\* transport accepts the data: after it the buffer is empty and the
\* transport has every event write accepted, with no write or close needed.
C25_TimerFlushesLowVolume ==
    [][(TimerFlushes /\ bufferSize < highWaterMark /\ TransportAccepts) =>
           /\ buffer' = <<>>
           /\ bufferSize' = 0
           /\ Delivered' = accepted
           /\ ~isClosed']_vars

\* Two events of less than the high-water mark together, the first one
\* larger than a chunk, have been handed to the transport in two chunks
\* while the handler awaits Stage 2.
C25_Witness ==
    /\ ~isClosed
    /\ Instruction = AwaitOp("stage2CollectRankings")
    /\ Len(accepted) = 3
    /\ accepted[1].size + accepted[2].size + accepted[3].size < highWaterMark
    /\ accepted[2].size > chunkSize
    /\ Len(transport.written) = 2
    /\ Delivered = accepted
    /\ buffer = <<>>

\* C36: in a streamed round stage1_start is written only after the user
\* turn was persisted and complete only after the assistant turn was; when
\* a storage call throws, complete is not written, and error is (unless the
\* stream had closed itself after a failed response.write).
C36_PersistedBeforeAnnounced ==
    /\ HasWritten("stage1_start") =>
           Len(handler.persisted) >= 1 /\ handler.persisted[1] = "user"
    /\ HasWritten("complete") => handler.persisted = <<"user", "assistant">>
    /\ handler.threwAt \in {"addUserMessage", "addAssistantMessage"} =>
           /\ ~HasWritten("complete")
           /\ handler.threwAt = "addUserMessage" => accepted \in {<<>>} \cup
                  {<<[type |-> "error",
                      size |-> ByteLength(EventText("error", ErrorData))]>>}
           /\ handler.block \in {"finally", "done"} =>
                  HasWritten("error") \/ transport.failed

\* addAssistantMessage threw in a round whose user turn was persisted: the
\* round wrote its stage events, then error, and no complete.
C36_Witness ==
    /\ handler.block = "done"
    /\ handler.threwAt = "addAssistantMessage"
    /\ handler.persisted = <<"user">>
    /\ HasWritten("stage3_complete")
    /\ AcceptedTypes[Len(accepted)] = "error"
    /\ ~transport.failed

MaxModels == 3

\* Model identifiers COUNCIL_MODELS can list (model identifiers are never
\* array-index strings, so an object keeps them in insertion order).
ModelPool ==
    {"google/gemini-2.0-flash-thinking", "anthropic/claude-3.5-haiku",
     "openai/gpt-4o-mini"}

\* COUNCIL_MODELS: the configured list; the environment may repeat a model.
Configurations == UNION {[1..n -> ModelPool] : n \in 1..MaxModels}

Distinct(seq) == \A i, j \in 1..Len(seq) : seq[i] = seq[j] => i = j

\* A JavaScript object used as a dictionary: its keys in insertion order and
\* their values.
EmptyObject == [keys |-> <<>>, vals |-> <<>>]
ObjectSet(obj, key, val) ==
    IF \E i \in 1..Len(obj.keys) : obj.keys[i] = key
    THEN [obj EXCEPT !.vals = [i \in 1..Len(obj.keys) |->
                                   IF obj.keys[i] = key THEN val ELSE obj.vals[i]]]
    ELSE [keys |-> Append(obj.keys, key), vals |-> Append(obj.vals, val)]
ObjectEntries(obj) == [i \in 1..Len(obj.keys) |-> <<obj.keys[i], obj.vals[i]>>]

\* What queryModel resolved to: null, or the response of the call that was the
\* i-th task of its batch.
Null == [kind |-> "null", content |-> 0]
Pending == [kind |-> "pending", content |-> 0]
ResponseOf(i) == [kind |-> "response", content |-> i]

\* queryModelsParallel: result[models[i]] = responses[i] ?? null, for i in order
RECURSIVE BuildResult(_, _, _)
BuildResult(models, responses, i) ==
    IF i = 0 THEN EmptyObject
    ELSE ObjectSet(BuildResult(models, responses, i - 1), models[i], responses[i])
RECURSIVE BuildResultBackwards(_, _, _)
BuildResultBackwards(models, responses, i) ==
    IF i > Len(models) THEN EmptyObject
    ELSE ObjectSet(BuildResultBackwards(models, responses, i + 1), models[i], responses[i])
queryModelsParallelBackwards(models, responses) == BuildResultBackwards(models, responses, 1)
queryModelsParallel(models, responses) == BuildResult(models, responses, Len(models))

NotNull(entry) == entry[2] # Null

\* stage1CollectResponses: the entries whose response is not null, as results
stage1CollectResponses(models, responses) ==
    LET entries == SelectSeq(ObjectEntries(queryModelsParallel(models, responses)),
                               NotNull)
    IN  [i \in 1..Len(entries) |->
             [model |-> entries[i][1], response |-> entries[i][2].content]]

\* CHAIRMAN_MODEL: by default outside the council, possibly one of its members.
CHAIRMAN_MODEL_DEFAULT == "google/gemini-2.0-flash"
Chairmen == {CHAIRMAN_MODEL_DEFAULT, "openai/gpt-4o-mini"}

\* String.fromCharCode(code) for the codes 65 ('A') to 91 ('[')
CharCodes == "ABCDEFGHIJKLMNOPQRSTUVWXYZ["
FromCharCode(code) == SubSeq(CharCodes, code - 64, code - 64)

\* stage2CollectRankings: labels and labelToModel
LabelsAllA(stage1Results) == [i \in 1..Len(stage1Results) |-> FromCharCode(65)]
Labels(stage1Results) == [i \in 1..Len(stage1Results) |-> FromCharCode(65 + (i - 1))]
RECURSIVE BuildLabelToModel(_, _, _)
BuildLabelToModel(labels, stage1Results, i) ==
    IF i = 0 THEN EmptyObject
    ELSE ObjectSet(BuildLabelToModel(labels, stage1Results, i - 1),
                   "Response " \o labels[i], stage1Results[i].model)
LabelToModel(stage1Results) ==
    BuildLabelToModel(Labels(stage1Results), stage1Results, Len(stage1Results))

\* stage2CollectRankings: the entries whose response is not null, as results
Stage2Results(models, responses) ==
    LET entries == SelectSeq(ObjectEntries(queryModelsParallel(models, responses)),
                             NotNull)
    IN  [i \in 1..Len(entries) |->
             [model |-> entries[i][1], ranking |-> entries[i][2].content]]

\* stage3SynthesizeFinal: the chairman, then COUNCIL_MODELS.filter(m !== CHAIRMAN_MODEL)
IsFallback(m) == m # round.chairman
CandidatesWithChairman == <<round.chairman>> \o round.models
Candidates == <<round.chairman>> \o SelectSeq(round.models, IsFallback)

NoSynthesis == [model |-> "", response |-> ""]
\* runFullCouncil's result when no model responded in Stage 1
AllFailedSynthesis ==
    [model |-> "error", response |-> "All models failed to respond. Please try again."]
SynthesisErrorUnnamed(chairman) == AllFailedSynthesis
\* stage3SynthesizeFinal's result when the chairman and all fallbacks failed
SynthesisError(chairman) ==
    [model |-> chairman,
     response |-> "Error: Unable to generate final synthesis. Chairman model ("
                  \o chairman \o ") and all fallback models failed. Please check"
                  \o " your API key and model availability."]
\* The synthesis written by the k-th candidate called.
SynthesisBy(model, k) == [model |-> model, response |-> "synthesis " \o ToString(k)]

NoRound ==
    [pc |-> "idle", mode |-> "", models |-> <<>>, chairman |-> "",
     responses |-> <<>>, outOfOrder |-> FALSE, stage1Failures |-> 0,
     stage1Results |-> <<>>, labelToModel |-> EmptyObject, stage2Calls |-> 0,
     stage2Results |-> <<>>, stage3Calls |-> <<>>, stage3Result |-> NoSynthesis,
     stage3Failures |-> 0, isFirstMessage |-> FALSE, events |-> <<>>,
     threw |-> FALSE, persisted |-> <<>>]

InitCouncil == round = NoRound

WrittenFirst(types) == IF round.mode = "stream" THEN types \o round.events ELSE round.events
\* The events the streaming route has written with stream.writeEvent, after
\* it wrote those of types.
Written(types) == IF round.mode = "stream" THEN round.events \o types ELSE round.events

\* A round begins, run by runFullCouncil for the /message route (mode "full")
\* or by the streaming route (mode "stream"), after the user message was
\* stored: stage1CollectResponses is called and queryModelsParallel starts one
\* queryModel task per entry of COUNCIL_MODELS.
Stage1Start(mode, models, chairman) ==
    /\ round.pc = "idle"
    /\ round' = [round EXCEPT !.pc = "stage1", !.mode = mode, !.models = models,
                              !.chairman = chairman,
                              !.events = IF mode = "stream" THEN <<"stage1_start">>
                                                            ELSE <<>>,
                              !.responses = [i \in 1..Len(models) |-> Pending]]
    /\ UNCHANGED <<fetchVars, retryVars, streamVars, pureVars>>

PromiseAny(responses) ==
    \E i \in 1..Len(responses) : responses[i] # Pending
\* await Promise.all(tasks) lets its caller go on: every task has resolved
\* (queryModel resolves to null on failure and never rejects).
PromiseAll(responses) ==
    \A i \in 1..Len(responses) : responses[i] # Pending

\* The i-th queryModel task of the batch in flight resolves.
TaskSettles(i, ok) ==
    /\ round.pc \in {"stage1", "stage2"}
    /\ i \in 1..Len(round.responses)
    /\ round.responses[i] = Pending
    /\ round' = [round EXCEPT
           !.responses[i] = IF ok THEN ResponseOf(i) ELSE Null,
           !.outOfOrder = IF round.pc = "stage1"
                          THEN @ \/ \E j \in 1..(i - 1) : round.responses[j] = Pending
                          ELSE @]
    /\ UNCHANGED <<fetchVars, retryVars, streamVars, pureVars>>

\* Promise.all(tasks) resolves: stage1CollectResponses returns.
Stage1Returns ==
    /\ round.pc = "stage1"
    /\ PromiseAll(round.responses)
    /\ round' = [round EXCEPT
           !.pc = "stage1_done",
           !.stage1Failures = Cardinality({i \in 1..Len(round.responses) :
                                               round.responses[i] = Null}),
           !.stage1Results = stage1CollectResponses(round.models, round.responses)]
    /\ UNCHANGED <<fetchVars, retryVars, streamVars, pureVars>>

\* runFullCouncil returns its error result when Stage 1 gave no answer.
AllModelsFailed ==
    /\ round.pc = "stage1_done"
    /\ round.mode = "full"
    /\ Len(round.stage1Results) = 0
    /\ round' = [round EXCEPT !.pc = "returned", !.stage2Results = <<>>,
                              !.stage3Result = AllFailedSynthesis,
                              !.labelToModel = EmptyObject]
    /\ UNCHANGED <<fetchVars, retryVars, streamVars, pureVars>>

\* stage2CollectRankings is called with Stage 1's results: the labels are
\* assigned and the ranking prompt is sent to every configured model.
Stage2Start ==
    /\ round.pc = "stage1_done"
    /\ round.mode = "full" => Len(round.stage1Results) # 0
    /\ round' = [round EXCEPT
           !.pc = "stage2",
           !.labelToModel = LabelToModel(round.stage1Results),
           !.stage2Calls = Len(round.models),
           !.events = Written(<<"stage1_complete", "stage2_start">>),
           !.outOfOrder = FALSE,
           !.responses = [i \in 1..Len(round.models) |-> Pending]]
    /\ UNCHANGED <<fetchVars, retryVars, streamVars, pureVars>>

\* Promise.all(tasks) resolves: stage2CollectRankings returns, and
\* stage3SynthesizeFinal queries the chairman.
Stage2Returns ==
    /\ round.pc = "stage2"
    /\ PromiseAll(round.responses)
    /\ round' = [round EXCEPT
           !.pc = "stage3",
           !.responses = <<>>,
           !.stage2Results = Stage2Results(round.models, round.responses),
           !.events = Written(<<"stage2_complete", "stage3_start">>),
           !.stage3Calls = <<round.chairman>>]
    /\ UNCHANGED <<fetchVars, retryVars, streamVars, pureVars>>

\* The queryModel call of Stage 3 in flight resolves: its success is the
\* synthesis; after a failure the next candidate is queried, and the error
\* synthesis is returned when there is none.
Stage3CallSettles(ok) ==
    /\ round.pc = "stage3"
    /\ LET k == Len(round.stage3Calls)
       IN  round' =
               IF ok
               THEN [round EXCEPT !.pc = "returned",
                                  !.stage3Result = SynthesisBy(Candidates[k], k)]
               ELSE IF k < Len(Candidates)
               THEN [round EXCEPT !.stage3Calls = Append(@, Candidates[k + 1]),
                                  !.stage3Failures = k]
               ELSE [round EXCEPT !.pc = "returned",
                                  !.stage3Failures = k,
                                  !.stage3Result = SynthesisError(round.chairman)]
    /\ UNCHANGED <<fetchVars, retryVars, streamVars, pureVars>>

\* The streaming route writes stage3_complete; for a conversation's first
\* message it then awaits the title.
Stage3Complete(isFirstMessage) ==
    /\ round.pc = "returned"
    /\ round.mode = "stream"
    /\ round' = [round EXCEPT !.pc = IF isFirstMessage THEN "title" ELSE "saving",
                              !.isFirstMessage = isFirstMessage,
                              !.events = Written(<<"stage3_complete">>)]
    /\ UNCHANGED <<fetchVars, retryVars, streamVars, pureVars>>

\* The title has been generated and updateConversationTitle has stored it
\* or thrown.
TitleUpdated(throws) ==
    /\ round.pc = "title"
    /\ round' = IF throws
                THEN [round EXCEPT !.pc = "finished", !.threw = TRUE,
                                   !.events = Written(<<"error">>)]
                ELSE [round EXCEPT !.pc = "saving",
                                   !.events = Written(<<"title_complete">>)]
    /\ UNCHANGED <<fetchVars, retryVars, streamVars, pureVars>>

\* addAssistantMessage(conversationId, stage1Results, stage2Results,
\* stage3Result) has stored the assistant turn or thrown; the streaming route
\* then writes complete, or error.
SaveAssistantMessage(throws) ==
    /\ \/ round.pc = "saving"
       \/ round.pc = "returned" /\ round.mode = "full"
    /\ round' = IF throws
                THEN [round EXCEPT !.pc = "finished", !.threw = TRUE,
                                   !.events = Written(<<"error">>)]
                ELSE [round EXCEPT
                          !.pc = "finished",
                          !.events = Written(<<"complete">>),
                          !.persisted = <<[role |-> "assistant",
                                           stage1 |-> round.stage1Results,
                                           stage2 |-> round.stage2Results,
                                           stage3 |-> round.stage3Result]>>]
    /\ UNCHANGED <<fetchVars, retryVars, streamVars, pureVars>>

\* The round's results have been handed to the caller; the next round starts
\* from nothing of this one.
RoundReturns ==
    /\ round.pc = "finished"
    /\ round' = NoRound
    /\ UNCHANGED <<fetchVars, retryVars, streamVars, pureVars>>

NextCouncil ==
    \/ \E mode \in {"full", "stream"}, models \in Configurations, chairman \in Chairmen :
           Stage1Start(mode, models, chairman)
    \/ \E i \in 1..MaxModels, ok \in BOOLEAN : TaskSettles(i, ok)
    \/ Stage1Returns
    \/ AllModelsFailed
    \/ Stage2Start
    \/ Stage2Returns
    \/ \E ok \in BOOLEAN : Stage3CallSettles(ok)
    \/ \E isFirstMessage \in BOOLEAN : Stage3Complete(isFirstMessage)
    \/ \E throws \in BOOLEAN : TitleUpdated(throws)
    \/ \E throws \in BOOLEAN : SaveAssistantMessage(throws)
    \/ RoundReturns

(***************************************************************************)
(* council.ts: parseRankingFromText, applied to ranking texts made of a    *)
(* few kinds of fragment.                                                  *)
(***************************************************************************)
MaxFragments == 3

Marker == "FINAL RANKING:"

\* The fragments a ranking text is made of.
Fragments ==
    {"Response A beats Response B. ", Marker, "\n1. Response B", "\n2.Response A",
     " Response C", " no ranking "}
RankingTexts == UNION {[1..n -> Fragments] : n \in 0..MaxFragments}

RECURSIVE Concat(_)
Concat(strings) == IF strings = <<>> THEN "" ELSE Head(strings) \o Concat(Tail(strings))

CharAt(text, i) == SubSeq(text, i, i)
IsDigit(ch) == ch \in {"0", "1", "2", "3", "4", "5", "6", "7", "8", "9"}
IsCapital(ch) ==
    ch \in {"A", "B", "C", "D", "E", "F", "G", "H", "I", "J", "K", "L", "M", "N",
            "O", "P", "Q", "R", "S", "T", "U", "V", "W", "X", "Y", "Z"}
IsSpace(ch) == ch \in {" ", "\n", "\t", "\r"}

StartsWithAt(text, i, pattern) ==
    /\ i + Len(pattern) - 1 <= Len(text)
    /\ SubSeq(text, i, i + Len(pattern) - 1) = pattern

\* String.prototype.indexOf(pattern, from): 0 when there is no occurrence
RECURSIVE IndexOf(_, _, _)
IndexOf(text, pattern, from) ==
    IF from + Len(pattern) - 1 > Len(text) THEN 0
    ELSE IF StartsWithAt(text, from, pattern) THEN from
    ELSE IndexOf(text, pattern, from + 1)

\* rankingText.split('FINAL RANKING:')[1]: the text between the first
\* occurrence of the marker and the next one (or the end).
RankingSection(text) ==
    LET first == IndexOf(text, Marker, 1)
        start == first + Len(Marker)
        next == IndexOf(text, Marker, start)
    IN  SubSeq(text, start, IF next = 0 THEN Len(text) ELSE next - 1)

\* /Response [A-Z]/ matches at position i
LabelAt(text, i) ==
    /\ StartsWithAt(text, i, "Response ")
    /\ i + 9 <= Len(text)
    /\ IsCapital(CharAt(text, i + 9))

\* text.match(/Response [A-Z]/g), [] standing for null
RECURSIVE MatchLabels(_, _)
MatchLabels(text, i) ==
    IF i > Len(text) THEN <<>>
    ELSE IF LabelAt(text, i)
         THEN <<SubSeq(text, i, i + 9)>> \o MatchLabels(text, i + 10)
         ELSE MatchLabels(text, i + 1)

\* The first position from i on that holds no digit, no white space.
RECURSIVE SkipDigits(_, _)
SkipDigits(text, i) ==
    IF i <= Len(text) /\ IsDigit(CharAt(text, i)) THEN SkipDigits(text, i + 1) ELSE i
RECURSIVE SkipSpace(_, _)
SkipSpace(text, i) ==
    IF i <= Len(text) /\ IsSpace(CharAt(text, i)) THEN SkipSpace(text, i + 1) ELSE i

\* /\d+\.\s*Response [A-Z]/ matches at position i: the position of its
\* "Response X", or 0.
NumberedAt(text, i) ==
    IF i <= Len(text) /\ IsDigit(CharAt(text, i))
    THEN LET dot == SkipDigits(text, i)
         IN  IF dot <= Len(text) /\ CharAt(text, dot) = "."
             THEN LET label == SkipSpace(text, dot + 1)
                  IN  IF LabelAt(text, label) THEN label ELSE 0
             ELSE 0
    ELSE 0

\* section.match(/\d+\.\s*Response [A-Z]/g), each match mapped to its
\* "Response X"
RECURSIVE MatchNumbered(_, _)
MatchNumbered(text, i) ==
    IF i > Len(text) THEN <<>>
    ELSE LET label == NumberedAt(text, i)
         IN  IF label # 0
             THEN <<SubSeq(text, label, label + 9)>> \o MatchNumbered(text, label + 10)
             ELSE MatchNumbered(text, i + 1)

parseRankingFromTextWholeText(rankingText) ==
    IF IndexOf(rankingText, Marker, 1) # 0
          /\ MatchNumbered(RankingSection(rankingText), 1) # <<>>
    THEN MatchNumbered(RankingSection(rankingText), 1)
    ELSE MatchLabels(rankingText, 1)
parseRankingFromText(rankingText) ==
    IF IndexOf(rankingText, Marker, 1) # 0
    THEN LET rankingSection == RankingSection(rankingText)
             numberedMatches == MatchNumbered(rankingSection, 1)
             matches == MatchLabels(rankingSection, 1)
         IN  IF Len(numberedMatches) > 0 THEN numberedMatches
             ELSE IF matches # <<>> THEN matches
             ELSE MatchLabels(rankingText, 1)
    ELSE MatchLabels(rankingText, 1)

NoRanking == [pc |-> "none", fragments |-> <<>>, text |-> "", parsed |-> <<>>]

InitRanking == ranking = NoRanking

\* A model's ranking response arrives.
RankingArrives(fragments) ==
    /\ ranking.pc \in {"none", "parsed"}
    /\ ranking' = [pc |-> "text", fragments |-> fragments, text |-> Concat(fragments),
                   parsed |-> <<>>]
    /\ UNCHANGED <<fetchVars, retryVars, streamVars, round, aggregation, cacheVars, routeVars,
                   queryVars, storageVars>>

\* parsed_ranking: parseRankingFromText(response.content || '')
ParseRanking ==
    /\ ranking.pc = "text"
    /\ ranking' = [ranking EXCEPT !.pc = "parsed",
                                  !.parsed = parseRankingFromText(ranking.text)]
    /\ UNCHANGED <<fetchVars, retryVars, streamVars, round, aggregation, cacheVars, routeVars,
                   queryVars, storageVars>>

NextRanking ==
    \/ \E fragments \in RankingTexts : RankingArrives(fragments)
    \/ ParseRanking

(***************************************************************************)
(* council.ts: calculateAggregateRankings, applied to the parsed rankings  *)
(* of up to MaxRankers models over three Stage 1 survivors.  average_rank  *)
(* is kept in hundredths.                                                  *)
(***************************************************************************)
MaxRankers == 3

\* The Stage 1 results the rankings are about, and their label map.
RankedResults ==
    <<[model |-> "google/gemini-2.0-flash-thinking", response |-> 1],
      [model |-> "anthropic/claude-3.5-haiku", response |-> 2],
      [model |-> "openai/gpt-4o-mini", response |-> 3]>>

\* The parsed orders a ranking can have: up to two labels, among them a label
\* no answer carries, or a full order of the three answers.
RankLabels == {"Response A", "Response B", "Response C", "Response D"}
ParsedOrders ==
    UNION {[1..n -> RankLabels] : n \in 0..2}
        \cup {order \in [1..3 -> {"Response A", "Response B", "Response C"}] :
                  Distinct(order)}

\* label in labelToModel, labelToModel[label]
ObjectHas(obj, key) == \E i \in 1..Len(obj.keys) : obj.keys[i] = key
ObjectGet(obj, key) == obj.vals[CHOOSE i \in 1..Len(obj.keys) : obj.keys[i] = key]

\* modelPositions[modelName].push(position), after creating the list if absent
PushPosition(modelPositions, modelName, position) ==
    IF ObjectHas(modelPositions, modelName)
    THEN ObjectSet(modelPositions, modelName,
                   Append(ObjectGet(modelPositions, modelName), position))
    ELSE ObjectSet(modelPositions, modelName, <<position>>)

\* The inner loop: positions 1..n of one parsed ranking
RECURSIVE RecordRanking(_, _, _, _)
RecordRanking(modelPositions, parsedRanking, labelToModel, n) ==
    IF n = 0 THEN modelPositions
    ELSE LET before == RecordRanking(modelPositions, parsedRanking, labelToModel, n - 1)
             label == parsedRanking[n]
         IN  IF ObjectHas(labelToModel, label)
             THEN PushPosition(before, ObjectGet(labelToModel, label), n)
             ELSE before

\* The outer loop: the rankings 1..k
RECURSIVE RecordRankings(_, _, _)
RecordRankings(parsedRankings, labelToModel, k) ==
    IF k = 0 THEN EmptyObject
    ELSE RecordRanking(RecordRankings(parsedRankings, labelToModel, k - 1),
                       parsedRankings[k], labelToModel, Len(parsedRankings[k]))

RECURSIVE Sum(_)
Sum(positions) == IF positions = <<>> THEN 0 ELSE Head(positions) + Sum(Tail(positions))

\* Math.round((sum / count) * 100), the average in hundredths (halves round up)
RoundedAverage(sum, count) == (200 * sum + count) \div (2 * count)

\* Array.prototype.sort((a, b) => a.average_rank - b.average_rank): stable
RECURSIVE InsertSorted(_, _)
InsertSortedBeforeEqual(sorted, entry) ==
    IF sorted = <<>> THEN <<entry>>
    ELSE IF entry.average_rank <= Head(sorted).average_rank
         THEN <<entry>> \o sorted
         ELSE <<Head(sorted)>> \o InsertSorted(Tail(sorted), entry)
InsertSorted(sorted, entry) ==
    IF sorted = <<>> THEN <<entry>>
    ELSE IF entry.average_rank < Head(sorted).average_rank
         THEN <<entry>> \o sorted
         ELSE <<Head(sorted)>> \o InsertSorted(Tail(sorted), entry)
RECURSIVE SortByAverage(_, _)
SortByAverage(entries, n) ==
    IF n = 0 THEN <<>> ELSE InsertSorted(SortByAverage(entries, n - 1), entries[n])

calculateAggregateRankings(parsedRankings, labelToModel) ==
    LET modelPositions == RecordRankings(parsedRankings, labelToModel, Len(parsedRankings))
        entries == ObjectEntries(modelPositions)
        aggregate == [i \in 1..Len(entries) |->
                          [model |-> entries[i][1],
                           average_rank |-> RoundedAverage(Sum(entries[i][2]),
                                                           Len(entries[i][2])),
                           rankings_count |-> Len(entries[i][2])]]
    IN  SortByAverage(aggregate, Len(aggregate))

NoAggregation == [pc |-> "collecting", parsed |-> <<>>, aggregate |-> <<>>]

InitAggregation == aggregation = NoAggregation

\* One more model's ranking of the round has been parsed.
RankingParsed(order) ==
    /\ aggregation.pc = "collecting"
    /\ Len(aggregation.parsed) < MaxRankers
    /\ aggregation' = [aggregation EXCEPT !.parsed = Append(@, order)]
    /\ UNCHANGED <<fetchVars, retryVars, streamVars, round, ranking, cacheVars, routeVars,
                   queryVars, storageVars>>

\* calculateAggregateRankings(stage2Results, labelToModel)
Aggregate ==
    /\ aggregation.pc = "collecting"
    /\ aggregation' =
           [aggregation EXCEPT
                !.pc = "aggregated",
                !.aggregate = calculateAggregateRankings(aggregation.parsed,
                                                         LabelToModel(RankedResults))]
    /\ UNCHANGED <<fetchVars, retryVars, streamVars, round, ranking, cacheVars, routeVars,
                   queryVars, storageVars>>

NextAggregation ==
    \/ \E order \in ParsedOrders : RankingParsed(order)
    \/ Aggregate

(***************************************************************************)
(*                     Claims about the council's stages                   *)
(***************************************************************************)

Indices(seq) == [i \in 1..Len(seq) |-> i]
Succeeded(i) == round.responses[i].kind = "response"
\* The answer of the i-th call of Stage 1.
AnswerOf(i) == [model |-> round.models[i], response |-> i]

\* C13: Stage 1 returns exactly the answers of the calls that succeeded, one
\* per entry of the configuration, in configuration order.
C13_OneAnswerPerSucceededCall ==
    round.pc = "stage1_done" =>
        LET ok == SelectSeq(Indices(round.models), Succeeded)
        IN  round.stage1Results = [j \in 1..Len(ok) |-> AnswerOf(ok[j])]

FirstOccurrence(i) == \A j \in 1..(i - 1) : round.models[j] # round.models[i]
LastCallOf(i) ==
    CHOOSE j \in i..Len(round.models) :
        /\ round.models[j] = round.models[i]
        /\ \A k \in (j + 1)..Len(round.models) : round.models[k] # round.models[i]
LastCallSucceeded(i) == Succeeded(LastCallOf(i))

\* C13 (amended): Stage 1 returns one answer per distinct configured model, in
\* the order of the models' first entries in the configuration whatever the
\* order of completion: the answer of the model's last-listed call, when that
\* call succeeded.  For pairwise distinct models these are the answers of the
\* calls that succeeded: N when all N succeed, N-k when k fail.  Stage 2 is
\* entered with the survivors Stage 1 returned.
C13_OneAnswerPerSucceededModel ==
    /\ round.pc = "stage2" =>
           round.labelToModel.vals =
               [j \in 1..Len(round.stage1Results) |-> round.stage1Results[j].model]
    /\ round.pc = "stage1_done" =>
        LET kept == SelectSeq(SelectSeq(Indices(round.models), FirstOccurrence),
                              LastCallSucceeded)
            ok == SelectSeq(Indices(round.models), Succeeded)
        IN  /\ round.stage1Results =
                   [j \in 1..Len(kept) |->
                        [model |-> round.models[kept[j]],
                         response |-> LastCallOf(kept[j])]]
            /\ Distinct(round.models) =>
                   round.stage1Results = [j \in 1..Len(ok) |-> AnswerOf(ok[j])]

\* Of three distinct models the second failed and the third completed before
\* the first: Stage 1 has returned the first's and the third's answers.
C13_Witness ==
    /\ round.pc = "stage1_done"
    /\ Len(round.models) = 3
    /\ Distinct(round.models)
    /\ round.outOfOrder
    /\ round.responses[2] = Null
    /\ round.stage1Results = <<AnswerOf(1), AnswerOf(3)>>

\* C14: in a round in which all Stage 1 calls failed no Stage 2 call and no
\* Stage 3 call is issued, the Stage 2 data is empty, and the round returns the
\* fixed placeholder synthesis with empty metadata; in both modes.
C14_AllFailedRoundErrors ==
    (round.pc \notin {"idle", "stage1"} /\ round.stage1Failures = Len(round.models))
    => /\ round.stage2Calls = 0
       /\ round.stage3Calls = <<>>
       /\ round.stage2Results = <<>>
       /\ round.pc = "returned" =>
              /\ round.stage3Result = AllFailedSynthesis
              /\ round.labelToModel = EmptyObject

\* The R-th capital letter.
Letter(r) == SubSeq("ABCDEFGHIJKLMNOPQRSTUVWXYZ", r, r)

\* C15: once Stage 2 has assigned the labels of a round with R survivors, the
\* label map has exactly the keys "Response A", ... up to the R-th letter, in
\* Stage 1 order; the i-th label maps to the i-th survivor's model, no two
\* labels map to the same model and no model has two labels; the map holds
\* nothing of an earlier round.
C15_LabelsAreABijection ==
    round.pc \in {"stage2", "stage3"} =>
        LET R == Len(round.stage1Results)
            map == round.labelToModel
        IN  /\ Len(map.keys) = R
            /\ Len(map.vals) = R
            /\ \A i \in 1..R :
                   /\ map.keys[i] = "Response " \o Letter(i)
                   /\ map.vals[i] = round.stage1Results[i].model
            /\ \A i, j \in 1..R :
                   (map.keys[i] = map.keys[j] \/ map.vals[i] = map.vals[j]) => i = j

\* Of three configured models the first and the third survived Stage 1: they
\* are Response A and Response B.
C15_Witness ==
    /\ round.pc = "stage2"
    /\ Len(round.models) = 3
    /\ round.labelToModel =
           [keys |-> <<"Response A", "Response B">>,
            vals |-> <<round.models[1], round.models[3]>>]

\* The sequence without its entries equal to m.
RECURSIVE Without(_, _)
Without(seq, m) ==
    IF seq = <<>> THEN <<>>
    ELSE IF Head(seq) = m THEN Without(Tail(seq), m)
    ELSE <<Head(seq)>> \o Without(Tail(seq), m)
\* Stage 3's candidates in the order the claim gives them.
ChairmanThenOthers == <<round.chairman>> \o Without(round.models, round.chairman)
Last(seq) == seq[Len(seq)]

\* C18: the models Stage 3 has called are the first candidates in the order
\* chairman, then the other configured models in configuration order; while
\* one call is in flight a step either starts the next candidate's call (the
\* call in flight failed) or returns: the synthesis of the candidate called
\* last, and the error synthesis only when every candidate has been called;
\* nobody is called once Stage 3 has returned.
C18_OneCandidateAtATime ==
    [][/\ round.pc = "stage3" =>
              LET calls == round.stage3Calls
                  k == Len(calls)
              IN  /\ k >= 1
                  /\ calls = SubSeq(ChairmanThenOthers, 1, k)
                  /\ \/ /\ round'.pc = "stage3"
                        /\ k < Len(ChairmanThenOthers)
                        /\ round'.stage3Calls = Append(calls, ChairmanThenOthers[k + 1])
                     \/ /\ round'.pc = "returned"
                        /\ round'.stage3Calls = calls
                        /\ \/ round'.stage3Result = SynthesisBy(Last(calls), k)
                           \/ /\ k = Len(ChairmanThenOthers)
                              /\ round'.stage3Result = SynthesisError(round.chairman)
       /\ (round.pc \in {"returned", "title", "saving"}) =>
              round'.stage3Calls = round.stage3Calls]_vars

\* The chairman, who is the second of three configured models, and the first
\* model failed; the third model's synthesis has been returned.
C18_Witness ==
    /\ round.pc = "returned"
    /\ Len(round.models) = 3
    /\ Distinct(round.models)
    /\ round.chairman = round.models[2]
    /\ round.stage3Calls = <<round.models[2], round.models[1], round.models[3]>>
    /\ round.stage3Result = SynthesisBy(round.models[3], 3)

\* The stage whose batch of calls is in flight, if any.
InBatch(r) == r.pc \in {"stage1", "stage2"}

\* C28: the step that begins Stage 1 or Stage 2 starts one call per
\* configured model, all of them in flight before any is awaited; while the
\* stage lasts, calls settle one by one and the settled ones keep their
\* outcome; the stage ends only in a step that finds every call of the batch
\* settled, whether calls failed or succeeded before.
C28_FullBatchJoin ==
    [][/\ (InBatch(round') /\ round'.pc # round.pc) =>
              /\ Len(round'.responses) = Len(round'.models)
              /\ \A i \in 1..Len(round'.models) : round'.responses[i] = Pending
       /\ (InBatch(round) /\ round'.pc = round.pc) =>
              /\ round'.models = round.models
              /\ Cardinality({i \in 1..Len(round.models) :
                                  round'.responses[i] # round.responses[i]}) <= 1
              /\ \A i \in 1..Len(round.models) :
                     round.responses[i] # Pending =>
                         round'.responses[i] = round.responses[i]
       /\ (InBatch(round) /\ round'.pc # round.pc) =>
              \A i \in 1..Len(round.models) : round.responses[i] # Pending]_vars

\* Stage 2 of a round of three models has returned the rankings of two,
\* and Stage 1 before it had returned two answers, one call having failed.
C28_Witness ==
    /\ round.pc = "stage3"
    /\ Len(round.models) = 3
    /\ Distinct(round.models)
    /\ round.stage1Failures = 1
    /\ Len(round.stage1Results) = 2
    /\ Len(round.stage2Results) = 2

\* Stage 3 is over and every candidate's call failed.
AllCandidatesFailed ==
    /\ round.pc \in {"returned", "title", "saving", "finished"}
    /\ round.stage3Failures = Len(Candidates)

\* The assistant turn addAssistantMessage stores for the round.
AssistantTurn ==
    [role |-> "assistant", stage1 |-> round.stage1Results,
     stage2 |-> round.stage2Results, stage3 |-> round.stage3Result]

\* C19: when the chairman and every fallback candidate failed,
\* stage3SynthesizeFinal returns, without throwing, the synthesis whose model
\* is the chairman and whose text is the fixed error message; the round goes
\* on to addAssistantMessage, which stores the assistant turn with that
\* synthesis, and the streaming route writes stage3_complete before it and
\* complete after it.  Only a throwing storage call ends the round otherwise.
C19_ExhaustionIsPersisted ==
    AllCandidatesFailed =>
        /\ round.stage3Result = SynthesisError(round.chairman)
        /\ round.stage3Result.model = round.chairman
        /\ round.stage3Calls = Candidates
        /\ round.pc = "returned" =>
               /\ ~round.threw
               /\ round.mode = "full" => ENABLED SaveAssistantMessage(FALSE)
               /\ round.mode = "stream" => ENABLED Stage3Complete(FALSE)
        /\ round.pc = "saving" => ~round.threw /\ ENABLED SaveAssistantMessage(FALSE)
        /\ (round.mode = "stream" /\ round.pc # "returned") =>
               \E i \in 1..Len(round.events) : round.events[i] = "stage3_complete"
        /\ (round.pc = "finished" /\ ~round.threw) =>
               /\ round.persisted = <<AssistantTurn>>
               /\ round.mode = "stream" => Last(round.events) = "complete"
        /\ (round.pc = "finished" /\ round.threw) => round.persisted = <<>>

\* Three distinct models, the chairman among them, all failed in Stage 3 of a
\* streamed round, and the assistant turn has been stored with the error
\* synthesis.
C19_Witness ==
    /\ AllCandidatesFailed
    /\ round.pc = "finished"
    /\ round.mode = "stream"
    /\ Len(round.stage3Calls) = 3
    /\ round.persisted = <<AssistantTurn>>
    /\ round.persisted[1].stage3 = SynthesisError(round.chairman)
    /\ Last(round.events) = "complete"

\* The events of a streamed round without error, in order.
EventOrder(isFirstMessage) ==
    <<"stage1_start", "stage1_complete", "stage2_start", "stage2_complete",
      "stage3_start", "stage3_complete">>
    \o (IF isFirstMessage THEN <<"title_complete">> ELSE <<>>)
    \o <<"complete">>

IsPrefix(s, t) == Len(s) <= Len(t) /\ s = SubSeq(t, 1, Len(s))

\* C20: a streamed round that ends without error has written exactly
\* stage1_start, stage1_complete, stage2_start, stage2_complete,
\* stage3_start, stage3_complete, title_complete if and only if the message
\* is the conversation's first, and complete, in this order; at every moment
\* of a streamed round the events written so far are the first ones of this
\* order (followed by error when a call threw), whatever number of model calls
\* failed.
C20_EventsInOrder ==
    (round.pc # "idle" /\ round.mode = "stream") =>
        /\ (round.pc = "finished" /\ ~round.threw) =>
               round.events = EventOrder(round.isFirstMessage)
        /\ ~round.threw =>
               \E isFirstMessage \in BOOLEAN :
                   IsPrefix(round.events, EventOrder(isFirstMessage))
        /\ round.threw =>
               /\ Last(round.events) = "error"
               /\ IsPrefix(SubSeq(round.events, 1, Len(round.events) - 1),
                           EventOrder(round.isFirstMessage))

\* A streamed round of a first message has ended without error although one
\* of three Stage 1 calls and the chairman's Stage 3 call failed.
C20_Witness ==
    /\ round.pc = "finished"
    /\ round.mode = "stream"
    /\ ~round.threw
    /\ round.isFirstMessage
    /\ Len(round.models) = 3
    /\ round.stage1Failures = 1
    /\ round.stage3Failures = 1
    /\ round.events = EventOrder(TRUE)

(***************************************************************************)
(*                    Claims about parseRankingFromText                    *)
(***************************************************************************)

\* What a fragment contributes: its numbered entries' labels, all its labels.
NumberedIn(fragment) ==
    CASE fragment = "\n1. Response B" -> <<"Response B">>
      [] fragment = "\n2.Response A"  -> <<"Response A">>
      [] OTHER                        -> <<>>
LabelsIn(fragment) ==
    CASE fragment = "Response A beats Response B. " -> <<"Response A", "Response B">>
      [] fragment = " Response C"                   -> <<"Response C">>
      [] OTHER                                      -> NumberedIn(fragment)

RECURSIVE AllNumbered(_)
AllNumbered(fragments) ==
    IF fragments = <<>> THEN <<>>
    ELSE NumberedIn(Head(fragments)) \o AllNumbered(Tail(fragments))
RECURSIVE AllLabels(_)
AllLabels(fragments) ==
    IF fragments = <<>> THEN <<>>
    ELSE LabelsIn(Head(fragments)) \o AllLabels(Tail(fragments))

HasMarker(fragments) == \E i \in 1..Len(fragments) : fragments[i] = Marker
\* The fragments after the first marker.
RECURSIVE AfterMarker(_)
AfterMarker(fragments) ==
    IF fragments = <<>> THEN <<>>
    ELSE IF Head(fragments) = Marker THEN Tail(fragments)
    ELSE AfterMarker(Tail(fragments))
\* The fragments up to the first marker.
RECURSIVE UpToMarker(_)
UpToMarker(fragments) ==
    IF fragments = <<>> \/ Head(fragments) = Marker THEN <<>>
    ELSE <<Head(fragments)>> \o UpToMarker(Tail(fragments))

\* C16: the parse is the numbered entries' labels of the text after
\* 'FINAL RANKING:', in order; if there is none (or no marker) it is every
\* label of the whole text in order; it is empty when no label occurs.
C16_NumberedElseWholeText ==
    ranking.pc = "parsed" =>
        LET numbered == AllNumbered(AfterMarker(ranking.fragments))
        IN  ranking.parsed =
                IF HasMarker(ranking.fragments) /\ numbered # <<>>
                THEN numbered
                ELSE AllLabels(ranking.fragments)

\* C16 (amended): with section the text between the first 'FINAL RANKING:'
\* and the next one (or the end), the parse is the numbered entries' labels of
\* the section, in order; if the section has none, every label of the section
\* in order; if the section has no label, or there is no marker, every label
\* of the whole text in order; it is empty when no label occurs.
C16_NumberedElseSectionElseWholeText ==
    ranking.pc = "parsed" =>
        LET section == UpToMarker(AfterMarker(ranking.fragments))
        IN  /\ ranking.parsed =
                   IF HasMarker(ranking.fragments) /\ AllNumbered(section) # <<>>
                   THEN AllNumbered(section)
                   ELSE IF HasMarker(ranking.fragments) /\ AllLabels(section) # <<>>
                   THEN AllLabels(section)
                   ELSE AllLabels(ranking.fragments)
            /\ AllLabels(ranking.fragments) = <<>> => ranking.parsed = <<>>

\* A text with labels before the marker and an unnumbered label after it has
\* been parsed to the label after the marker alone.
C16_Witness ==
    /\ ranking.pc = "parsed"
    /\ ranking.fragments = <<"Response A beats Response B. ", Marker, " Response C">>
    /\ ranking.parsed = <<"Response C">>

(***************************************************************************)
(*                 Claims about calculateAggregateRankings                 *)
(***************************************************************************)

\* The places <<ranking, position>> at which the parsed rankings name the
\* label of the i-th Stage 1 result.
PlacesOf(i) ==
    {place \in (1..Len(aggregation.parsed)) \X (1..3) :
         /\ place[2] <= Len(aggregation.parsed[place[1]])
         /\ aggregation.parsed[place[1]][place[2]] = "Response " \o Letter(i)}
RECURSIVE SumOfPositions(_)
SumOfPositions(places) ==
    IF places = {} THEN 0
    ELSE LET place == CHOOSE p \in places : TRUE
         IN  place[2] + SumOfPositions(places \ {place})
\* The result of the model of the i-th Stage 1 result is first seen at the
\* earliest of its places.
SeenBefore(i, j) ==
    \E p \in PlacesOf(i) : \A q \in PlacesOf(j) :
        p[1] < q[1] \/ (p[1] = q[1] /\ p[2] < q[2])
ResultIndex(model) == CHOOSE i \in 1..Len(RankedResults) : RankedResults[i].model = model

\* C17: the aggregate has exactly one entry per model with at least one
\* position; the entry counts the model's positions and carries their mean
\* rounded to hundredths; the entries ascend by average_rank, and entries of
\* equal average_rank stand in the order in which their models were first seen.
C17_AggregateRanking ==
    aggregation.pc = "aggregated" =>
        LET aggregate == aggregation.aggregate
            ranked == {i \in 1..Len(RankedResults) : PlacesOf(i) # {}}
        IN  /\ Len(aggregate) = Cardinality(ranked)
            /\ {aggregate[n].model : n \in 1..Len(aggregate)} =
                   {RankedResults[i].model : i \in ranked}
            /\ \A n \in 1..Len(aggregate) :
                   LET i == ResultIndex(aggregate[n].model)
                       count == Cardinality(PlacesOf(i))
                       sum == SumOfPositions(PlacesOf(i))
                       rank == aggregate[n].average_rank
                   IN  /\ aggregate[n].rankings_count = count
                       /\ 2 * count * rank - count <= 200 * sum
                       /\ 200 * sum < 2 * count * rank + count
            /\ \A n, m \in 1..Len(aggregate) :
                   n < m =>
                       /\ aggregate[n].average_rank <= aggregate[m].average_rank
                       /\ aggregate[n].average_rank = aggregate[m].average_rank
                              => SeenBefore(ResultIndex(aggregate[n].model),
                                            ResultIndex(aggregate[m].model))

\* Rankings C-A, A-C and B-D: B, seen last, comes first with average 1; C and
\* A tie at 1.5 and C, seen first, stays first; Response D counts for no model.
C17_Witness ==
    /\ aggregation.pc = "aggregated"
    /\ aggregation.parsed = <<<<"Response C", "Response A">>,
                              <<"Response A", "Response C">>,
                              <<"Response B", "Response D">>>>
    /\ aggregation.aggregate =
           <<[model |-> RankedResults[2].model, average_rank |-> 100, rankings_count |-> 1],
             [model |-> RankedResults[3].model, average_rank |-> 150, rankings_count |-> 2],
             [model |-> RankedResults[1].model, average_rank |-> 150, rankings_count |-> 2]>>

\* C38: each Stage 2 ranking contributes at most one position to each model,
\* so no aggregate entry counts more rankings than there are Stage 2 results.
C38_OnePositionPerRanking ==
    aggregation.pc = "aggregated" =>
        \A n \in 1..Len(aggregation.aggregate) :
            aggregation.aggregate[n].rankings_count <= Len(aggregation.parsed)

(***************************************************************************)
(* cache.ts: one LRUCache, with calls of set, get and size at arbitrary     *)
(* times (the methods the program calls on a cache it is using).           *)
(***************************************************************************)
\* options.maxSize of the cache under check
maxSize == 2
\* the constructor's default for options.ttl (5 minutes)
ttl == 300000

\* Date.now() at the end of the check.
MaxClock == 450001
\* The times that pass between two cache calls: half the default TTL, and
\* one millisecond more than the TTL.
ClockSteps == {150000, 300001}

CacheKeys == {"response:m1", "response:m2", "title:q"}
CacheValues == {"v1", "v2"}

\* customTtl: left undefined, or given in milliseconds.
NoTtl == [defined |-> FALSE, ms |-> 0]
CustomTtl(ms) == [defined |-> TRUE, ms |-> ms]
CustomTtls == {NoTtl, CustomTtl(100000)}

\* Map.get(key): the position of the key's entry, 0 if there is none.
EntryIndex(c, key) ==
    IF \E i \in 1..Len(c) : c[i].key = key
    THEN CHOOSE i \in 1..Len(c) : c[i].key = key
    ELSE 0

EntriesHas(c, key) == EntryIndex(c, key) # 0

\* Map.delete(key)
EntriesDelete(c, key) ==
    LET Other(e) == e.key # key
    IN  SelectSeq(c, Other)

\* Map.set(key, entry): a present key keeps its place in the iteration order.
EntriesSet(c, entry) ==
    IF EntriesHas(c, entry.key)
    THEN [c EXCEPT ![EntryIndex(c, entry.key)] = entry]
    ELSE Append(c, entry)

\* now > entry.expiresAt
IsExpired(entry, t) == t > entry.expiresAt

evictExpired(c, t) ==
    LET Live(e) == ~IsExpired(e, t)
    IN  SelectSeq(c, Live)

\* The entry evictLRU's loop ends with: the first one, in iteration order,
\* of those with the least lastAccessed.
LruIndex(c) ==
    CHOOSE i \in 1..Len(c) :
        /\ \A j \in 1..Len(c) : c[i].lastAccessed <= c[j].lastAccessed
        /\ \A j \in 1..(i - 1) : c[j].lastAccessed > c[i].lastAccessed

evictFirst(c) == IF c = <<>> THEN c ELSE Tail(c)
\* evictLRU: "if (lruKey)" deletes nothing when the key found is the empty
\* string (no key of the program is: all begin with "response:" or "title:").
evictLRU(c) ==
    IF c = <<>> \/ c[LruIndex(c)].key = ""
    THEN c
    ELSE EntriesDelete(c, c[LruIndex(c)].key)

\* The part of set that makes room.
MakeRoom(c, t) ==
    IF Len(c) >= maxSize
    THEN IF Len(evictExpired(c, t)) >= maxSize
         THEN evictLRU(evictExpired(c, t))
         ELSE evictExpired(c, t)
    ELSE c

NewEntry(key, value, customTtl, t) ==
    [key |-> key, value |-> value,
     expiresAt |-> t + (IF customTtl.defined THEN customTtl.ms ELSE ttl),
     lastAccessed |-> t]

set(c, key, value, customTtl, t) ==
    EntriesSet(MakeRoom(c, t), NewEntry(key, value, customTtl, t))

Absent == [found |-> FALSE, value |-> ""]
Found(value) == [found |-> TRUE, value |-> value]

\* get: the cache it leaves and the value it returns.
getUnchecked(c, key, t) ==
    IF ~EntriesHas(c, key)
    THEN [cache |-> c, result |-> Absent]
    ELSE [cache |-> [c EXCEPT ![EntryIndex(c, key)].lastAccessed = t],
          result |-> Found(c[EntryIndex(c, key)].value)]
get(c, key, t) ==
    IF ~EntriesHas(c, key)
    THEN [cache |-> c, result |-> Absent]
    ELSE LET i == EntryIndex(c, key)
         IN  IF IsExpired(c[i], t)
             THEN [cache |-> EntriesDelete(c, key), result |-> Absent]
             ELSE [cache |-> [c EXCEPT ![i].lastAccessed = t],
                   result |-> Found(c[i].value)]

\* A call of the cache: its arguments, the value it returned and the key
\* evictLRU logged as evicted in it.
Call(op, key, value, result, lru) ==
    [op |-> op, key |-> key, value |-> value, result |-> result, lru |-> lru]

NoCall == Call("none", "", "", Absent, "")

\* The key evictLRU deletes and logs in set, "" if set does not get there.
LruLogged(c, t) ==
    IF Len(c) >= maxSize /\ Len(evictExpired(c, t)) >= maxSize
    THEN evictExpired(c, t)[LruIndex(evictExpired(c, t))].key
    ELSE ""

InitCache ==
    /\ cache = <<>>
    /\ clock = 0
    /\ returned = NoCall

\* Time passes between two calls.
ClockAdvances(d) ==
    /\ clock + d <= MaxClock
    /\ clock' = clock + d
    /\ UNCHANGED <<cache, returned>>
    /\ UNCHANGED <<fetchVars, retryVars, streamVars, round, ranking, aggregation,
                   routeVars,
                   queryVars, storageVars>>

CacheSet(key, value, customTtl) ==
    /\ cache' = set(cache, key, value, customTtl, clock)
    /\ returned' = Call("set", key, value, Absent, LruLogged(cache, clock))
    /\ UNCHANGED clock
    /\ UNCHANGED <<fetchVars, retryVars, streamVars, round, ranking, aggregation,
                   routeVars,
                   queryVars, storageVars>>

CacheGet(key) ==
    /\ cache' = get(cache, key, clock).cache
    /\ returned' = Call("get", key, "", get(cache, key, clock).result, "")
    /\ UNCHANGED clock
    /\ UNCHANGED <<fetchVars, retryVars, streamVars, round, ranking, aggregation,
                   routeVars,
                   queryVars, storageVars>>

\* size(), also called by getStats: expired entries are evicted first.
CacheSize ==
    /\ cache' = evictExpired(cache, clock)
    /\ returned' = Call("size", "", "", Absent, "")
    /\ UNCHANGED clock
    /\ UNCHANGED <<fetchVars, retryVars, streamVars, round, ranking, aggregation,
                   routeVars,
                   queryVars, storageVars>>

NextCache ==
    \/ \E d \in ClockSteps : ClockAdvances(d)
    \/ \E key \in CacheKeys, value \in CacheValues, customTtl \in CustomTtls :
           CacheSet(key, value, customTtl)
    \/ \E key \in CacheKeys : CacheGet(key)
    \/ CacheSize

(***************************************************************************)
(* cache.ts: the class LRUCache under calls of all its methods with any    *)
(* key, the empty string included.                                         *)
(***************************************************************************)
AnyKeys == {"", "response:m1", "title:q"}

\* has(key): this.get(key) !== null
CacheHas(key) ==
    /\ cache' = get(cache, key, clock).cache
    /\ returned' = Call("has", key, "", get(cache, key, clock).result, "")
    /\ UNCHANGED clock
    /\ UNCHANGED <<fetchVars, retryVars, streamVars, round, ranking, aggregation,
                   routeVars,
                   queryVars, storageVars>>

CacheDelete(key) ==
    /\ cache' = EntriesDelete(cache, key)
    /\ returned' = Call("delete", key, "", Absent, "")
    /\ UNCHANGED clock
    /\ UNCHANGED <<fetchVars, retryVars, streamVars, round, ranking, aggregation,
                   routeVars,
                   queryVars, storageVars>>

CacheClear ==
    /\ cache' = <<>>
    /\ returned' = Call("clear", "", "", Absent, "")
    /\ UNCHANGED clock
    /\ UNCHANGED <<fetchVars, retryVars, streamVars, round, ranking, aggregation,
                   routeVars,
                   queryVars, storageVars>>

NextLRUCache ==
    \/ \E d \in ClockSteps : ClockAdvances(d)
    \/ \E key \in AnyKeys, value \in CacheValues, customTtl \in CustomTtls :
           CacheSet(key, value, customTtl)
    \/ \E key \in AnyKeys : CacheGet(key)
    \/ \E key \in AnyKeys : CacheHas(key)
    \/ \E key \in AnyKeys : CacheDelete(key)
    \/ CacheClear
    \/ CacheSize

(***************************************************************************)
(*                          Claims about LRUCache                          *)
(***************************************************************************)

KeysOf(c) == {c[i].key : i \in 1..Len(c)}

EntryOf(c, key) == c[CHOOSE i \in 1..Len(c) : c[i].key = key]

\* The keys of the entries whose expiry time has not passed.
LiveKeys == {k \in KeysOf(cache) : EntryOf(cache, k).expiresAt >= clock}

\* The entries of the keys in ks are in the cache after the step as before.
Kept(ks) ==
    \A k \in ks : k \in KeysOf(cache') /\ EntryOf(cache', k) = EntryOf(cache, k)

\* This step is a call of the operation op.
Called(op) ==
    /\ clock' = clock
    /\ returned'.op = op
    /\ <<cache, returned>>' # <<cache, returned>>

\* C26: a set on a cache that is at capacity leaves, besides the entry it
\* inserts, the unexpired entries if they are fewer than maxSize, and
\* otherwise the unexpired entries but one that no other one precedes in
\* lastAccessed; a set on a cache below capacity removes nothing.  The entry
\* inserted has the value given and lastAccessed = now.
C26_SetEvictsExpiredThenLRU ==
    [][Called("set") =>
           LET key == returned'.key
           IN  /\ key \in KeysOf(cache')
               /\ EntryOf(cache', key).value = returned'.value
               /\ EntryOf(cache', key).lastAccessed = clock
               /\ EntryOf(cache', key).expiresAt \in {clock + ttl, clock + 100000}
               /\ Len(cache') = Cardinality(KeysOf(cache'))
               /\ IF Len(cache) < maxSize
                  THEN /\ KeysOf(cache') = KeysOf(cache) \cup {key}
                       /\ Kept(KeysOf(cache) \ {key})
                       /\ returned'.lru = ""
                  ELSE IF Cardinality(LiveKeys) < maxSize
                  THEN /\ KeysOf(cache') = LiveKeys \cup {key}
                       /\ Kept(LiveKeys \ {key})
                       /\ returned'.lru = ""
                  ELSE \E v \in LiveKeys :
                           /\ \A k \in LiveKeys :
                                  EntryOf(cache, v).lastAccessed
                                      <= EntryOf(cache, k).lastAccessed
                           /\ returned'.lru = v
                           /\ KeysOf(cache') = (LiveKeys \ {v}) \cup {key}
                           /\ Kept(LiveKeys \ {v, key})]_vars

\* A set on a full cache of unexpired entries has evicted the entry inserted
\* second: the entry inserted first, which a get had refreshed, is still
\* there.
C26_Witness ==
    /\ returned.op = "set"
    /\ returned.lru \notin {"", returned.key}
    /\ Len(cache) = maxSize
    /\ cache[1].key # returned.key
    /\ cache[1].expiresAt = ttl
    /\ cache[1].lastAccessed > 0
    /\ cache[Len(cache)].key = returned.key

\* C27: get of a key without entry returns absent and changes nothing; get
\* of an entry whose expiry time has passed returns absent and removes that
\* entry only; get of any other entry returns its value and sets its
\* lastAccessed to now, changing nothing else.  An entry's value is the one
\* given to the last set for its key.
C27_GetHonoursExpiry ==
    [][/\ Called("get") =>
              LET key == returned'.key
              IN  IF key \notin KeysOf(cache)
                  THEN returned'.result = Absent /\ cache' = cache
                  ELSE IF clock > EntryOf(cache, key).expiresAt
                  THEN /\ returned'.result = Absent
                       /\ KeysOf(cache') = KeysOf(cache) \ {key}
                       /\ Kept(KeysOf(cache) \ {key})
                       /\ Len(cache') = Len(cache) - 1
                  ELSE /\ returned'.result = Found(EntryOf(cache, key).value)
                       /\ KeysOf(cache') = KeysOf(cache)
                       /\ Kept(KeysOf(cache) \ {key})
                       /\ EntryOf(cache', key) =
                              [EntryOf(cache, key) EXCEPT !.lastAccessed = clock]
                       /\ Len(cache') = Len(cache)
       /\ \A k \in KeysOf(cache) \cap KeysOf(cache') :
              EntryOf(cache', k).value # EntryOf(cache, k).value =>
                  /\ Called("set")
                  /\ returned'.key = k
                  /\ EntryOf(cache', k).value = returned'.value]_vars

\* A get found nothing for a key whose entry had expired and removed the
\* entry, leaving the unexpired entry of another key, which an earlier get
\* had returned, in the cache.
C27_Witness ==
    /\ returned.op = "get"
    /\ returned.result = Absent
    /\ returned.key \notin KeysOf(cache)
    /\ Len(cache) = 1
    /\ clock = 300000
    /\ cache[1].expiresAt = 150000 + ttl
    /\ cache[1].lastAccessed = clock

C40_SetOfPresentKeyKeepsOthers ==
    [][Called("set") /\ returned'.key \in KeysOf(cache)
           => Kept(LiveKeys \ {returned'.key})]_vars

(***************************************************************************)
(* main.ts: the handlers of POST .../message and POST .../message/stream,  *)
(* at the level of their awaits, with the title task of a first message.   *)
(***************************************************************************)
UserQueries == {"What is 2+2?", "What is 3+3?"}

\* The awaits of the /message handler from addUserMessage on (the stages are
\* awaited inside runFullCouncil).
MessageAwaits(isFirstMessage) ==
    <<"addUserMessage">>
    \o (IF isFirstMessage
        THEN <<"generateConversationTitle", "updateConversationTitle">>
        ELSE <<>>)
    \o <<"stage1CollectResponses", "stage2CollectRankings", "stage3SynthesizeFinal",
         "addAssistantMessage">>

\* The awaits of the /message/stream handler's try block, writeEvent aside.
StreamAwaits(isFirstMessage) ==
    <<"addUserMessage", "stage1CollectResponses", "stage2CollectRankings",
      "stage3SynthesizeFinal">>
    \o (IF isFirstMessage
        THEN <<"titlePromise", "updateConversationTitle">>
        ELSE <<>>)
    \o <<"addAssistantMessage">>

Awaits(r) ==
    IF r.route = "stream" THEN StreamAwaits(r.isFirstMessage)
                          ELSE MessageAwaits(r.isFirstMessage)

\* The statement the handler awaits.
Awaited(r) == Awaits(r)[r.pc]

\* The awaits that end with a join of the title task.
TitleJoins == {"generateConversationTitle", "titlePromise"}

\* The handler calls generateConversationTitle when it reaches this await:
\* the streaming handler right after addUserMessage, before Stage 1; the
\* /message handler in the await expression itself.
StartsTitle(r) ==
    /\ r.isFirstMessage
    /\ r.title = "none"
    /\ \/ r.route = "stream" /\ Awaited(r) = "stage1CollectResponses"
       \/ r.route = "message" /\ Awaited(r) = "generateConversationTitle"

\* generateConversationTitle up to its first await: a cached title is
\* returned at once, otherwise the title model is queried.
generateConversationTitle(r, cached) ==
    [r EXCEPT !.title = IF r.query \in cached THEN "settled" ELSE "pending",
              !.titleValue = IF r.query \in cached THEN "cached" ELSE "",
              !.log = Append(@, "title_start")]

\* The title generateConversationTitle returns after its queryModel call:
\* the fallback when the call resolved to null, else a title made from the
\* response.
FallbackTitle == "New Conversation"
TitleFrom(ok) == IF ok THEN "generated" ELSE FallbackTitle

\* titleCache.set(cacheKey, title), reached only with a response.
CacheTitleAlways(cached, query, ok) == cached \cup {query}
CacheTitle(cached, query, ok) == IF ok THEN cached \cup {query} ELSE cached

\* The handler at the statement it reached: a title task it starts there
\* is started, and the start of a stage is noted.
Arrive(r, cached) ==
    LET t == IF StartsTitle(r) THEN generateConversationTitle(r, cached) ELSE r
    IN  IF Awaited(t) \in {"stage1CollectResponses", "stage2CollectRankings",
                           "stage3SynthesizeFinal", "addAssistantMessage"}
        THEN [t EXCEPT !.log = Append(@, Awaited(t))]
        ELSE t

NoRequest ==
    [route |-> "", pc |-> 0, isFirstMessage |-> FALSE, query |-> "",
     title |-> "none", titleValue |-> "", log |-> <<>>, status |-> "idle"]

InitRoutes ==
    /\ request = NoRequest
    /\ titleCache = {}

\* A message request arrives, its conversation is found and the handler
\* awaits addUserMessage.
MessageRequest(route, isFirstMessage, query) ==
    /\ request.status = "idle"
    /\ request' = [NoRequest EXCEPT !.route = route, !.pc = 1,
                                    !.isFirstMessage = isFirstMessage,
                                    !.query = query, !.status = "running"]
    /\ UNCHANGED titleCache
    /\ UNCHANGED <<fetchVars, retryVars, streamVars, round, ranking, aggregation,
                   cacheVars,
                   queryVars, storageVars>>

\* The queryModel call of the title task resolves; a title it produced is
\* cached.
TitleCallSettles(ok) ==
    /\ request.title = "pending"
    /\ request' = [request EXCEPT !.title = "settled",
                                  !.titleValue = TitleFrom(ok),
                                  !.log = Append(@, "title_settled")]
    /\ titleCache' = CacheTitle(titleCache, request.query, ok)
    /\ UNCHANGED <<fetchVars, retryVars, streamVars, round, ranking, aggregation,
                   cacheVars,
                   queryVars, storageVars>>

\* What the handler awaits settles: a storage call may throw, a join of the
\* title task needs the task settled; the handler runs on to its next await.
AwaitedSettles(throws) ==
    /\ request.status = "running"
    /\ throws => Awaited(request) \in Throwing
    /\ Awaited(request) \in TitleJoins => request.title = "settled"
    /\ LET joined == IF Awaited(request) \in TitleJoins
                     THEN [request EXCEPT !.log = Append(@, "title_joined")]
                     ELSE IF Awaited(request) = "stage3SynthesizeFinal" /\ ~throws
                     THEN [request EXCEPT !.log = Append(@, "stage3_done")]
                     ELSE request
       IN  request' =
               IF throws
               THEN [joined EXCEPT !.status = "failed"]
               ELSE IF request.pc = Len(Awaits(request))
               THEN [joined EXCEPT !.status = "returned"]
               ELSE Arrive([joined EXCEPT !.pc = @ + 1], titleCache)
    /\ UNCHANGED titleCache
    /\ UNCHANGED <<fetchVars, retryVars, streamVars, round, ranking, aggregation,
                   cacheVars,
                   queryVars, storageVars>>

\* The response has been sent.
RequestEnds ==
    /\ request.status \in {"returned", "failed"}
    /\ request' = NoRequest
    /\ UNCHANGED titleCache
    /\ UNCHANGED <<fetchVars, retryVars, streamVars, round, ranking, aggregation,
                   cacheVars,
                   queryVars, storageVars>>

\* A cached title expires (24 hours).
TitleExpires(query) ==
    /\ query \in titleCache
    /\ titleCache' = titleCache \ {query}
    /\ UNCHANGED request
    /\ UNCHANGED <<fetchVars, retryVars, streamVars, round, ranking, aggregation,
                   cacheVars,
                   queryVars, storageVars>>

NextRoutes ==
    \/ \E route \in {"message", "stream"}, isFirstMessage \in BOOLEAN,
          query \in UserQueries : MessageRequest(route, isFirstMessage, query)
    \/ \E ok \in BOOLEAN : TitleCallSettles(ok)
    \/ \E throws \in BOOLEAN : AwaitedSettles(throws)
    \/ RequestEnds
    \/ \E query \in UserQueries : TitleExpires(query)

\* The position of a mark in the log, 0 if it is not there.
LogIndex(mark) ==
    IF \E i \in 1..Len(request.log) : request.log[i] = mark
    THEN CHOOSE i \in 1..Len(request.log) : request.log[i] = mark
    ELSE 0

Logged(mark) == LogIndex(mark) # 0

\* C30: in a round for a conversation's first message, on either route, the
\* title task is started before Stage 1 begins and it is joined only after
\* Stage 3 has finished and before the assistant turn is persisted: Stage 1
\* begins without the title having been joined.
C30_TitleRunsBesideTheStages ==
    request.isFirstMessage =>
        /\ Logged("stage1CollectResponses") =>
               /\ Logged("title_start")
               /\ LogIndex("title_start") < LogIndex("stage1CollectResponses")
        /\ Logged("title_joined") =>
               /\ Logged("stage3_done")
               /\ LogIndex("stage3_done") < LogIndex("title_joined")
        /\ Logged("addAssistantMessage") =>
               /\ Logged("title_joined")
               /\ LogIndex("title_joined") < LogIndex("addAssistantMessage")

\* The step in which the title call of the request resolves to null.
TitleCallFails ==
    /\ request.title = "pending"
    /\ request'.title = "settled"
    /\ request'.titleValue = FallbackTitle

\* The step in which the handler calls generateConversationTitle.
TitleRequested == request.title = "none" /\ request'.title # "none"

\* C32: when the title call fails, generateConversationTitle returns
\* 'New Conversation' without throwing and caches nothing, so the question
\* has no cached title and a call for a question without a cached title
\* queries the title model; the failure does not end the request, which goes
\* on through its remaining awaits.
C32_TitleFailureFallsBack ==
    [][/\ TitleCallFails =>
              /\ titleCache' = titleCache
              /\ request.query \notin titleCache'
              /\ request'.status = "running"
              /\ request'.pc = request.pc
       /\ (TitleRequested /\ request'.query \notin titleCache) =>
              /\ request'.title = "pending"
              /\ request'.titleValue = ""]_vars

\* A request whose title call failed has returned after persisting the
\* assistant turn, and its question has no cached title.
C32_Witness ==
    /\ request.status = "returned"
    /\ request.isFirstMessage
    /\ request.titleValue = FallbackTitle
    /\ Logged("title_joined")
    /\ Logged("addAssistantMessage")
    /\ request.query \notin titleCache

(***************************************************************************)
(* storage.ts: the operations of concurrent requests on one conversation   *)
(* file.  An operation reads the file (await fs.readFile), changes its     *)
(* copy, and writes the copy back (await fs.writeFile); other requests'    *)
(* operations run while it waits.                                          *)
(***************************************************************************)

\* Bounds of the storage model.
NumRequests == 2
MaxStorageCalls == 2

Requests == 1..NumRequests
Titles == {"Sum of Two", FallbackTitle}

\* createConversation: the file of a new conversation.
NewConversation == [title |-> "New Conversation", messages |-> <<>>]

\* The message an operation pushes: the user's, or the assistant's with its
\* three stages; by and n tell the request and its call apart from others'.
Message(role, r, n) == [role |-> role, by |-> r, n |-> n]

\* The change an operation makes to the conversation it has read.
Apply(conversation, op) ==
    CASE op.name = "updateConversationTitle" -> [conversation EXCEPT !.title = op.title]
      [] OTHER -> [conversation EXCEPT !.messages = Append(@, op.message)]

NoOp == [name |-> "", title |-> "", message |-> Message("", 0, 0)]
IdleStorage == [pc |-> "idle", op |-> NoOp, conversation |-> NewConversation, calls |-> 0]

\* What has been reported: the messages of the add operations that returned,
\* and the title of the updateConversationTitle that returned last.
Acknowledge(ack, op) ==
    CASE op.name = "updateConversationTitle" -> [ack EXCEPT !.title = op.title]
      [] OTHER -> [ack EXCEPT !.messages = @ \cup {op.message}]

InitStorage ==
    /\ stored = NewConversation
    /\ storageOps = [r \in Requests |-> IdleStorage]
    /\ acknowledged = [title |-> NewConversation.title, messages |-> {}]

\* Request r calls addUserMessage, addAssistantMessage or
\* updateConversationTitle, which awaits getConversation's fs.readFile.
StorageCall(r, name, title) ==
    /\ storageOps[r].pc = "idle"
    /\ storageOps[r].calls < MaxStorageCalls
    /\ name = "updateConversationTitle" <=> title # ""
    /\ storageOps' = [storageOps EXCEPT ![r] =
           [pc |-> "reading",
            op |-> [name |-> name, title |-> title,
                    message |-> IF name = "updateConversationTitle"
                                THEN NoOp.message
                                ELSE Message(IF name = "addUserMessage"
                                             THEN "user" ELSE "assistant",
                                             r, storageOps[r].calls + 1)],
            conversation |-> NewConversation,
            calls |-> storageOps[r].calls + 1]]
    /\ UNCHANGED <<stored, acknowledged>>

\* fs.readFile resolves: the operation parses the file, changes its copy and
\* awaits saveConversation (ensureDataDir, then fs.writeFile).
StorageRead(r) ==
    /\ storageOps[r].pc = "reading"
    /\ storageOps' = [storageOps EXCEPT
           ![r].pc = "saving",
           ![r].conversation = Apply(stored, storageOps[r].op)]
    /\ UNCHANGED <<stored, acknowledged>>

\* fs.writeFile resolves: the file holds the operation's copy, and the
\* operation returns.
StorageWrite(r) ==
    /\ storageOps[r].pc = "saving"
    /\ stored' = storageOps[r].conversation
    /\ acknowledged' = Acknowledge(acknowledged, storageOps[r].op)
    /\ storageOps' = [storageOps EXCEPT
           ![r] = [IdleStorage EXCEPT !.calls = storageOps[r].calls]]

NextStorage ==
    \/ \E r \in Requests,
          name \in {"addUserMessage", "addAssistantMessage", "updateConversationTitle"},
          title \in Titles \cup {""} :
           StorageCall(r, name, title)
               /\ UNCHANGED <<fetchVars, retryVars, streamVars, round, ranking,
                              aggregation, cacheVars, routeVars, queryVars>>
    \/ \E r \in Requests :
           StorageRead(r)
               /\ UNCHANGED <<fetchVars, retryVars, streamVars, round, ranking,
                              aggregation, cacheVars, routeVars, queryVars>>
    \/ \E r \in Requests :
           StorageWrite(r)
               /\ UNCHANGED <<fetchVars, retryVars, streamVars, round, ranking,
                              aggregation, cacheVars, routeVars, queryVars>>

(***************************************************************************)
(*                       Claims about the storage                          *)
(***************************************************************************)

\* The messages of a conversation, as a set.
MessagesOf(conversation) ==
    {conversation.messages[i] : i \in 1..Len(conversation.messages)}

\* C34: whatever the interleaving of the storage operations of concurrent
\* requests, the stored conversation has every message an operation has
\* reported appended and, when no operation is in progress, the title set
\* last.
C34_NoLostUpdate ==
    /\ acknowledged.messages \subseteq MessagesOf(stored)
    /\ (\A r \in Requests : storageOps[r].pc = "idle") =>
           stored.title = acknowledged.title

Init == InitFetch /\ InitRetry /\ InitStream /\ InitCouncil /\ InitRanking
            /\ InitAggregation /\ InitCache /\ InitRoutes /\ InitQuery
            /\ InitStorage

SpecFetch == Init /\ [][NextFetch]_vars
SpecRetry == Init /\ [][NextRetry]_vars
SpecStream == Init /\ [][NextStream]_vars
SpecCouncil == Init /\ [][NextCouncil]_vars
SpecRanking == Init /\ [][NextRanking]_vars
SpecAggregation == Init /\ [][NextAggregation]_vars
SpecCache == Init /\ [][NextCache]_vars
SpecLRUCache == Init /\ [][NextLRUCache]_vars
SpecRoutes == Init /\ [][NextRoutes]_vars
SpecQuery == Init /\ [][NextQuery]_vars
SpecStorage == Init /\ [][NextStorage]_vars

====
